---- MODULE Spec2Model ----
(***************************************************************************)
(* Data hub: the record store (data_hub/models.py) and the ingestion       *)
(* pipeline (data_hub/ingestion.py, class DataIngestor).                   *)
(*                                                                         *)
(* Tables are sequences indexed by the autoincrement primary key; no row   *)
(* is ever deleted by the program.  A request is handled by a worker       *)
(* (Procs); ingest_from_api / ingest_from_file are split at their commits  *)
(* and at the count query, the points where another session can observe    *)
(* or change the store.  Spec lets one request run at a time, ConcSpec     *)
(* lets the workers interleave.                                            *)
(*                                                                         *)
(* Init is the store get_db_session creates: every table empty.  A step    *)
(* of a call is taken only in program order (runs[p].pc); the inner        *)
(* try/except around DataRecord(...) cannot fire for a dict payload and    *)
(* has no step.  runs[p] also keeps what the call was given and what the   *)
(* store held when it began (src, recs0, count0), for the properties.      *)
(*                                                                         *)
(* DataProcessor, DataAnalytics and DataVisualization are modelled one     *)
(* call per step (call holds the last one); the routes of APIHandler       *)
(* (data_hub/api.py) one request per step (response holds the last         *)
(* answer, data_queries the query log); the cache decorator of app.py by   *)
(* the steps of wrapper on each thread (threads), with _CACHE in CACHE and *)
(* time.time() in clock.                                                   *)
(***************************************************************************)
EXTENDS Integers, Sequences, FiniteSets, TLC

VARIABLES data_sources, datasets, data_records, data_ingestion_logs, runs, invocations,
          updated_at, data_analyses, now, call,
          data_queries, response,
          CACHE, clock, threads, upstream_calls

vars == <<data_sources, datasets, data_records, data_ingestion_logs, runs, invocations,
          updated_at, data_analyses, now, call, data_queries, response,
          CACHE, clock, threads, upstream_calls>>
\* the state of the API facade (data_hub/api.py) besides the store, and the
\* state of the question-answering application (app.py)
facade == <<data_queries, response>>
application == <<CACHE, clock, threads, upstream_calls>>

(* ------------------------------ bounds --------------------------------- *)
MaxSources == 1
MaxDatasets == 2
MaxRuns == 2
MaxItems == 3
MaxNested == 2
MaxConcItems == 1
MaxProcs == 2
MaxProcRecords == 3
MaxCalls == 2
MaxAnalyses == 2
MaxTrendRecords == 3
MaxAnaRecords == 2
MaxApiRecords == 2
MaxQueries == 1
MaxUpstreamCalls == 3
MaxClock == 7200

Procs == 1..MaxProcs
\* RealWorldAIHub (data_hub/main.py) serves its caller on one thread, with one session.
MainThread == 1

(* --------------------------- JSON values ------------------------------- *)
(* A decoded JSON value: kind, and for a dict its keys (insertion order)   *)
(* with the values in elems, for a list its elements in elems, for a       *)
(* string its length n, for a number its value n.                          *)
JNull == [kind |-> "null", keys |-> <<>>, elems |-> <<>>, n |-> 0]
JNum(v) == [kind |-> "num", keys |-> <<>>, elems |-> <<>>, n |-> v]
JStr(len) == [kind |-> "str", keys |-> <<>>, elems |-> <<>>, n |-> len]
JList(xs) == [kind |-> "list", keys |-> <<>>, elems |-> xs, n |-> 0]
JDict(ks, vs) == [kind |-> "dict", keys |-> ks, elems |-> vs, n |-> 0]
\* A string whose text matters: a timestamp "YYYY-MM-DDTHH:MM:SS" (its
\* length in n; in elems the instant it names, in hours since
\* 1970-01-01T00:00:00) and the decimal digits of a number (in elems the
\* number); keys tells which.
JIso(t) == [kind |-> "str", keys |-> <<"iso8601">>, elems |-> <<JNum(t)>>, n |-> 19]
JDecimal(v) == [kind |-> "str", keys |-> <<"decimal">>, elems |-> <<JNum(v)>>, n |-> 1]

\* isinstance(x, dict) / isinstance(x, list)
IsDict(x) == x.kind = "dict"
IsList(x) == x.kind = "list"

\* dict.get(key, default); only dicts have .get
HasKey(d, key) == \E i \in 1..Len(d.keys) : d.keys[i] = key
DictGet(d, key, default) ==
    IF HasKey(d, key)
    THEN d.elems[CHOOSE i \in 1..Len(d.keys) : d.keys[i] = key]
    ELSE default

\* `for record in records`: a list yields its elements, a dict its keys,
\* a string its characters; a number or None is not iterable (TypeError).
Iterable(x) == x.kind \in {"list", "dict", "str"}
IterItems(x) ==
    CASE x.kind = "list" -> x.elems
      [] x.kind = "dict" -> [i \in 1..Len(x.keys) |-> JStr(1)]
      [] x.kind = "str"  -> [i \in 1..x.n |-> JStr(1)]
      [] OTHER -> <<>>

(* ------------------------- payload universe ---------------------------- *)
\* The i-th item of a payload, when it is a key-value map.
Row(i) == JDict(<<"name", "price">>, <<JStr(1), JNum(i)>>)
BadItem == JNum(7)

\* Arrays of at most k items, each a key-value map or a bare number.
ArraysUpTo(k) ==
    UNION {{[i \in 1..m |-> IF isRow[i] THEN Row(i) ELSE BadItem] :
                isRow \in [1..m -> BOOLEAN]} : m \in 0..k}
RowArraysUpTo(k) == {[i \in 1..m |-> Row(i)] : m \in 0..k}
Arrays == ArraysUpTo(MaxItems)

NoField == ""
DataFields == {NoField, "items", "missing"}

Wrapped(a) == JDict(<<"items", "total">>, <<JList(a), JNum(Len(a))>>)
ApiBodies ==
    {JList(a) : a \in Arrays}
    \cup {Wrapped(a) : a \in ArraysUpTo(MaxNested)}
    \cup {Row(1), JDict(<<"items">>, <<Row(1)>>), JDict(<<"items">>, <<JNum(7)>>), JNum(7)}

\* What one HTTP GET produces: an exception, or a response with a status
\* code and a body that response.json() decodes or not.
Payload(exc, code, ok, body) ==
    [exc |-> exc, status_code |-> code, parse_ok |-> ok, body |-> body]
NoPayload == Payload("", 0, FALSE, JNull)
HttpErrors ==
    {Payload("ConnectionError", 0, FALSE, JNull)}
    \cup {Payload("", code, TRUE, JList(<<Row(1)>>)) : code \in {404, 500}}
    \cup {Payload("", 200, FALSE, JNull)}
HttpOutcomes == HttpErrors \cup {Payload("", 200, TRUE, b) : b \in ApiBodies}

\* What open() + json.load() produce.
JsonFileErrors ==
    {Payload("FileNotFoundError", 0, FALSE, JNull), Payload("", 0, FALSE, JNull)}
JsonFileOutcomes ==
    JsonFileErrors
    \cup {Payload("", 0, TRUE, b) : b \in {JList(a) : a \in Arrays} \cup {Row(1), JNum(7)}}

\* What pd.read_csv() + to_dict('records') produce: one dict per row.
CsvFileOutcomes ==
    {Payload("FileNotFoundError", 0, FALSE, JNull)}
    \cup {Payload("", 0, TRUE, JList(a)) : a \in RowArraysUpTo(MaxItems)}

\* The inputs of the interleaved runs: short arrays, one failure of each kind.
ConcDataFields == {NoField}
ConcFormats == {"json", "xml"}
ConcHttpOutcomes ==
    {Payload("", 500, TRUE, JList(<<Row(1)>>))}
    \cup {Payload("", 200, TRUE, JList(a)) : a \in ArraysUpTo(MaxConcItems)}
ConcJsonFileOutcomes ==
    {Payload("FileNotFoundError", 0, FALSE, JNull)}
    \cup {Payload("", 0, TRUE, JList(a)) : a \in ArraysUpTo(MaxConcItems)}
ConcCsvFileOutcomes ==
    {Payload("", 0, TRUE, JList(a)) : a \in RowArraysUpTo(MaxConcItems)}

Formats == {"json", "JSON", "csv", "CSV", "xml"}
\* str.lower() on the formats above
Lower(s) == CASE s = "JSON" -> "json" [] s = "CSV" -> "csv" [] OTHER -> s

(* ------------------------------ rows ----------------------------------- *)
SourceNames == {"s1"}
DatasetNames == {"d1"}

NULL == "NULL"

DataSource(name, source_type) == [name |-> name, source_type |-> source_type]
Dataset(name, source_id) == [name |-> name, source_id |-> source_id, record_count |-> 0]
DataRecord(dataset_id, data, source_id) ==
    [dataset_id |-> dataset_id, data |-> data, metadata |-> [source_id |-> source_id]]
DataIngestionLog(dataset_id, source_id) ==
    [dataset_id |-> dataset_id, source_id |-> source_id,
     records_processed |-> 0, records_failed |-> 0,
     end_time |-> NULL, status |-> "RUNNING", error_message |-> NULL]

\* query(Model).filter(Model.id == id).first() is not None
SourceExistsAlways(id) == TRUE
SourceExists(id) == id \in 1..Len(data_sources)
DatasetExists(id) == id \in 1..Len(datasets)

\* query(DataRecord).filter(DataRecord.dataset_id == dataset_id).count()
CountAllRecords(recs, dataset_id) == Len(recs)
CountRecords(recs, dataset_id) ==
    Cardinality({i \in 1..Len(recs) : recs[i].dataset_id = dataset_id})

(* ------------------------------ workers -------------------------------- *)
IdleRun ==
    [pc |-> "idle", op |-> "none", source_id |-> 0, dataset_id |-> 0, arg |-> "",
     log |-> 0, src |-> NoPayload, io_calls |-> 0, records |-> JNull,
     records_processed |-> 0, records_failed |-> 0, cnt |-> 0, err |-> "",
     recs0 |-> <<>>, count0 |-> 0]

\* The `results` dict of an analysis: the fields the three analyses fill
\* in.  descriptive, correlations and categorical hold one entry per
\* column (or a lone message); slope is a fraction <<numerator,
\* denominator>>; memory_usage is the type of the value stored under that
\* key, when there is one.
NoResults ==
    [total |-> 0, columns |-> {}, descriptive |-> {}, correlations |-> {},
     categorical |-> {}, slope |-> <<0, 1>>, direction |-> "",
     date_range |-> <<0, 0>>, value_range |-> <<0, 0>>, memory_usage |-> ""]
\* The dict of chart data: the two axes, or the label counts of a pie or
\* the bin counts of a histogram.
Chart(chart_type, x, y, counts) ==
    [chart_type |-> chart_type, x |-> x, y |-> y, counts |-> counts]
NoChart == Chart("", <<>>, <<>>, {})

\* What a call handed back: tag "return" with a count (n), an analysis
\* (its id in n, and results) or chart data; tag "error" for a returned
\* {"error": message}; tag "raise" for an exception that reached the caller.
Ret(tag, n) == [tag |-> tag, n |-> n, error |-> "", results |-> NoResults, chart |-> NoChart]
ErrorResult(message) == [Ret("error", 0) EXCEPT !.error = message]
Exception(message) == [Ret("raise", 0) EXCEPT !.error = message]
AnalysisResult(id, results) == [Ret("return", id) EXCEPT !.results = results]
ChartResult(chart) == [Ret("return", 0) EXCEPT !.chart = chart]

\* The arguments of the last call, besides dataset_id.
DefaultParams == [include_descriptive_stats |-> TRUE, include_correlations |-> FALSE]
NoRules == [name |-> "none", price |-> "none"]
NoArgs ==
    [rules |-> NoRules, fn |-> "", analysis_params |-> DefaultParams,
     time_field |-> "", value_field |-> "", chart_type |-> "", x_field |-> "",
     y_field |-> "", analysis_id |-> 0]

\* The last call of DataProcessor, DataAnalytics or DataVisualization: what
\* it was given, what it returned, and what the store held when it began
\* (recs0, upd0, analyses0); mem is record.data of each row as a
\* DataProcessor call left it in the session before the commit.
NoCall ==
    [op |-> "none", dataset_id |-> 0, args |-> NoArgs,
     ret |-> Ret("none", 0), recs0 |-> <<>>, upd0 |-> <<>>, analyses0 |-> <<>>,
     mem |-> <<>>]

\* What the facade answered last: the route and what it was given, the
\* HTTP status code, the "status" and "message" of the JSON body, the ids
\* of the records in "data", and the query log as it was before.  At
\* first it has answered no request and no query is logged.
NoResponse ==
    [route |-> "", dataset_id |-> 0, limit |-> 0, offset |-> 0, status_code |-> 0,
     status |-> "", message |-> "", data |-> <<>>, queries0 |-> <<>>]
FacadeStart == data_queries = <<>> /\ response = NoResponse

\* app.py as imported: _CACHE = {} (line 34), no request being served.
\* A thread inside wrapper keeps its locals (key is func's name, as the
\* cached functions take no arguments; now; result or the exception func
\* ended with) and, for the properties, the number of its invocation of
\* func (call, 0 when it made none), what wrapper handed back (ret, or
\* raised) and _CACHE as it was when wrapper was entered.
IdleThread ==
    [pc |-> "idle", func |-> "", now |-> 0, result |-> "", failed |-> FALSE,
     call |-> 0, ret |-> "", raised |-> FALSE, CACHE0 |-> <<>>]
ApplicationStart ==
    /\ CACHE = <<>>
    /\ clock = 0
    /\ threads = [t \in Procs |-> IdleThread]
    /\ upstream_calls = 0

Init ==
    /\ FacadeStart
    /\ ApplicationStart
    /\ data_sources = <<>>
    /\ datasets = <<>>
    /\ data_records = <<>>
    /\ data_ingestion_logs = <<>>
    /\ runs = [p \in Procs |-> IdleRun]
    /\ invocations = 0
    /\ updated_at = <<>>
    /\ data_analyses = <<>>
    /\ now = 0
    /\ call = NoCall

\* no request is being handled
AllIdle == \A p \in Procs : runs[p].pc = "idle"

(* ----------------------- DataIngestor operations ----------------------- *)
register_data_source(name, source_type) ==
    /\ Len(data_sources) < MaxSources
    /\ data_sources' = Append(data_sources, DataSource(name, source_type))
    /\ UNCHANGED <<datasets, data_records, data_ingestion_logs, runs, invocations>>

create_dataset(name, source_id) ==
    /\ Len(datasets) < MaxDatasets
    /\ datasets' = Append(datasets, Dataset(name, source_id))
    /\ UNCHANGED <<data_sources, data_records, data_ingestion_logs, runs, invocations>>

\* `if not source or not dataset: raise ValueError(...)`
IdsResolve(source_id, dataset_id) == SourceExists(source_id) /\ DatasetExists(dataset_id)

\* Entry of ingest_from_api / ingest_from_file: the two lookups, the
\* ValueError, and the RUNNING log row with its commit.
BeginIngest(p, op, source_id, dataset_id, arg) ==
    /\ runs[p].pc = "idle"
    /\ invocations < MaxRuns
    /\ invocations' = invocations + 1
    /\ IF ~IdsResolve(source_id, dataset_id)
       THEN /\ runs' = [runs EXCEPT ![p] =
                    [IdleRun EXCEPT !.pc = "raised", !.op = op, !.source_id = source_id,
                                    !.dataset_id = dataset_id, !.arg = arg,
                                    !.recs0 = data_records]]
            /\ UNCHANGED data_ingestion_logs
       ELSE /\ data_ingestion_logs' =
                    Append(data_ingestion_logs, DataIngestionLog(dataset_id, source_id))
            /\ runs' = [runs EXCEPT ![p] =
                    [IdleRun EXCEPT !.pc = "try", !.op = op, !.source_id = source_id,
                                    !.dataset_id = dataset_id, !.arg = arg,
                                    !.log = Len(data_ingestion_logs) + 1,
                                    !.recs0 = data_records,
                                    !.count0 = datasets[dataset_id].record_count]]
    /\ UNCHANGED <<data_sources, datasets, data_records>>

ingest_from_api(p, fields) ==
    \E source_id \in 1..(Len(data_sources) + 1), dataset_id \in 1..(Len(datasets) + 1),
       data_field \in fields :
        BeginIngest(p, "api", source_id, dataset_id, data_field)

ingest_from_file(p, formats) ==
    \E source_id \in 1..(Len(data_sources) + 1), dataset_id \in 1..(Len(datasets) + 1),
       file_format \in formats :
        BeginIngest(p, "file", source_id, dataset_id, file_format)

\* `response.status_code != 200`
HttpFailedOn5xx(resp) == resp.status_code >= 500
HttpFailed(resp) == resp.status_code # 200

HttpStatusMessage(code) == "API request failed with status " \o ToString(code)

\* Lines 66-76: the exception raised (or "") and the value bound to `records`.
Outcome(exc, records) == [exc |-> exc, records |-> records]
ApiRecords(resp, data_field) ==
    IF resp.exc # "" THEN Outcome(resp.exc, JNull)
    ELSE IF HttpFailed(resp) THEN Outcome(HttpStatusMessage(resp.status_code), JNull)
    ELSE IF ~resp.parse_ok THEN Outcome("JSONDecodeError", JNull)
    ELSE LET data == resp.body IN
         IF data_field # NoField
         THEN IF IsDict(data)
              THEN Outcome("", DictGet(data, data_field, data))
              ELSE Outcome("AttributeError: no attribute 'get'", JNull)
         ELSE Outcome("", IF IsList(data) THEN data ELSE JList(<<data>>))

\* Lines 137-145: which branch a file_format takes.
FormatBranchDefaultJson(file_format) ==
    IF Lower(file_format) = "csv" THEN "csv" ELSE "json"
FormatBranch(file_format) ==
    IF Lower(file_format) = "json" THEN "json"
    ELSE IF Lower(file_format) = "csv" THEN "csv"
    ELSE "unsupported"

FormatMessage(file_format) == "Unsupported file format: " \o file_format

FileRecords(content, branch) ==
    IF content.exc # "" THEN Outcome(content.exc, JNull)
    ELSE IF ~content.parse_ok THEN Outcome("JSONDecodeError", JNull)
    ELSE LET data == content.body IN
         IF branch = "json"
         THEN Outcome("", IF IsList(data) THEN data ELSE JList(<<data>>))
         ELSE Outcome("", data)

\* Lines 61-76: the GET, the status check, the decode, the choice of `records`.
ApiFetch(p, outcomes) ==
    /\ runs[p].pc = "try"
    /\ runs[p].op = "api"
    /\ \E resp \in outcomes :
        LET out == ApiRecords(resp, runs[p].arg) IN
        runs' = [runs EXCEPT ![p].src = resp, ![p].io_calls = @ + 1,
                             ![p].records = out.records, ![p].err = out.exc,
                             ![p].pc = IF out.exc # "" THEN "except" ELSE "loop"]
    /\ UNCHANGED <<data_sources, datasets, data_records, data_ingestion_logs, invocations>>

\* Lines 133-145: the format branch and the file read.
FileRead(p, jsonOutcomes, csvOutcomes) ==
    /\ runs[p].pc = "try"
    /\ runs[p].op = "file"
    /\ LET branch == FormatBranch(runs[p].arg) IN
       IF branch = "unsupported"
       THEN runs' = [runs EXCEPT ![p].err = FormatMessage(runs[p].arg), ![p].pc = "except"]
       ELSE \E content \in (IF branch = "json" THEN jsonOutcomes ELSE csvOutcomes) :
            LET out == FileRecords(content, branch) IN
            runs' = [runs EXCEPT ![p].src = content, ![p].io_calls = @ + 1,
                                 ![p].records = out.records, ![p].err = out.exc,
                                 ![p].pc = IF out.exc # "" THEN "except" ELSE "loop"]
    /\ UNCHANGED <<data_sources, datasets, data_records, data_ingestion_logs, invocations>>

\* Lines 78-92 / 147-161: the per-record loop.  acc holds the rows added to
\* the session and the two counters.
LoopAcc(added, processed, failed) ==
    [added |-> added, records_processed |-> processed, records_failed |-> failed]

\* Line 91 / 160: db_session.add(db_record); pending rows are inserted in
\* the order they were added.
SessionAddFirst(added, row) == <<row>> \o added
SessionAdd(added, row) == Append(added, row)

RECURSIVE IngestLoopFailFast(_, _, _, _)
IngestLoopFailFast(items, dataset_id, source_id, acc) ==
    IF items = <<>> THEN acc
    ELSE LET record == Head(items) IN
         IF IsDict(record)
         THEN IngestLoopFailFast(Tail(items), dataset_id, source_id,
                  LoopAcc(SessionAdd(acc.added, DataRecord(dataset_id, record, source_id)),
                          acc.records_processed + 1, acc.records_failed))
         ELSE LoopAcc(acc.added, acc.records_processed, acc.records_failed + 1)

RECURSIVE IngestLoop(_, _, _, _)
IngestLoop(items, dataset_id, source_id, acc) ==
    IF items = <<>> THEN acc
    ELSE LET record == Head(items) IN
         IF IsDict(record)
         THEN IngestLoop(Tail(items), dataset_id, source_id,
                  LoopAcc(SessionAdd(acc.added, DataRecord(dataset_id, record, source_id)),
                          acc.records_processed + 1, acc.records_failed))
         ELSE IngestLoop(Tail(items), dataset_id, source_id,
                  LoopAcc(acc.added, acc.records_processed, acc.records_failed + 1))

\* Line 94 / 163: db_session.commit() inserts every pending row; data_records
\* has no unique constraint (models.py 40-50), so equal payloads are kept.
SessionCommitDistinct(recs, added) ==
    recs \o SelectSeq(added, LAMBDA r : \A i \in 1..Len(recs) : recs[i] # r)
SessionCommit(recs, added) == recs \o added

\* Lines 78-94 / 147-163: iterate `records`, add the rows, commit.
ProcessRecords(p) ==
    /\ runs[p].pc = "loop"
    /\ IF ~Iterable(runs[p].records)
       THEN /\ runs' = [runs EXCEPT ![p].err = "TypeError: object is not iterable",
                                    ![p].pc = "except"]
            /\ UNCHANGED data_records
       ELSE LET acc == IngestLoop(IterItems(runs[p].records), runs[p].dataset_id,
                                  runs[p].source_id, LoopAcc(<<>>, 0, 0)) IN
            /\ data_records' = SessionCommit(data_records, acc.added)
            /\ runs' = [runs EXCEPT ![p].records_processed = acc.records_processed,
                                    ![p].records_failed = acc.records_failed,
                                    ![p].pc = "count"]
    /\ UNCHANGED <<data_sources, datasets, data_ingestion_logs, invocations>>

\* Lines 97-99 / 166-168: the count query.
CountStep(p) ==
    /\ runs[p].pc = "count"
    /\ runs' = [runs EXCEPT ![p].cnt = CountRecords(data_records, runs[p].dataset_id),
                            ![p].pc = "write"]
    /\ UNCHANGED <<data_sources, datasets, data_records, data_ingestion_logs, invocations>>

\* Lines 97 / 166: the value assigned to dataset.record_count.
RecordCountFromProcessed(cnt, processed) == processed
NewRecordCount(cnt, processed) == cnt

\* Lines 97, 100 / 166, 169: dataset.record_count = <count>; commit.
WriteRecordCount(p) ==
    /\ runs[p].pc = "write"
    /\ datasets' = [datasets EXCEPT ![runs[p].dataset_id].record_count =
            NewRecordCount(runs[p].cnt, runs[p].records_processed)]
    /\ runs' = [runs EXCEPT ![p].pc = "finish"]
    /\ UNCHANGED <<data_sources, data_records, data_ingestion_logs, invocations>>

\* datetime.utcnow()
Utcnow == "utcnow"

\* Lines 102-105, 113-114 / 171-174, 182-183.
Complete(p) ==
    /\ runs[p].pc = "finish"
    /\ data_ingestion_logs' = [data_ingestion_logs EXCEPT ![runs[p].log] =
            [@ EXCEPT !.records_processed = runs[p].records_processed,
                      !.records_failed = runs[p].records_failed,
                      !.end_time = Utcnow,
                      !.status = "COMPLETED"]]
    /\ runs' = [runs EXCEPT ![p].pc = "done"]
    /\ UNCHANGED <<data_sources, datasets, data_records, invocations>>

\* Lines 107-114 / 176-183: the except branch, then finally.
FailedLogCountsFailure(log, message) ==
    [log EXCEPT !.error_message = message, !.status = "FAILED", !.records_failed = 1]
FailedLog(log, message) == [log EXCEPT !.error_message = message, !.status = "FAILED"]

Fail(p) ==
    /\ runs[p].pc = "except"
    /\ data_ingestion_logs' = [data_ingestion_logs EXCEPT ![runs[p].log] =
            FailedLog(@, runs[p].err)]
    /\ runs' = [runs EXCEPT ![p].pc = "done"]
    /\ UNCHANGED <<data_sources, datasets, data_records, invocations>>

\* The caller has the log (or the ValueError); the worker is free again.
Return(p) ==
    /\ runs[p].pc \in {"done", "raised"}
    /\ runs' = [runs EXCEPT ![p] = IdleRun]
    /\ UNCHANGED <<data_sources, datasets, data_records, data_ingestion_logs, invocations>>

\* The steps after the entry, which follow one another in program order.
Step(p) ==
    \/ ProcessRecords(p)
    \/ CountStep(p)
    \/ WriteRecordCount(p)
    \/ Complete(p)
    \/ Fail(p)
    \/ Return(p)

RegisterSource == \E name \in SourceNames : register_data_source(name, "API")
CreateDataset ==
    \E name \in DatasetNames, source_id \in 1..(Len(data_sources) + 1) :
        create_dataset(name, source_id)

\* What a DataIngestor step does outside its own tables: each row it
\* inserts takes the column default updated_at = utcnow() (models.py 48),
\* and it neither touches data_analyses nor is a DataProcessor call.
IngestorFrame ==
    /\ updated_at' =
           updated_at \o [i \in 1..(Len(data_records') - Len(data_records)) |-> now]
    /\ UNCHANGED <<data_analyses, now, call, facade, application>>

\* One call at a time, on the main thread: a call starts only when the
\* previous one has returned.
Next ==
    \/ AllIdle /\ RegisterSource /\ IngestorFrame
    \/ AllIdle /\ CreateDataset /\ IngestorFrame
    \/ AllIdle /\ ingest_from_api(MainThread, DataFields) /\ IngestorFrame
    \/ AllIdle /\ ingest_from_file(MainThread, Formats) /\ IngestorFrame
    \/ ApiFetch(MainThread, HttpOutcomes) /\ IngestorFrame
    \/ FileRead(MainThread, JsonFileOutcomes, CsvFileOutcomes) /\ IngestorFrame
    \/ Step(MainThread) /\ IngestorFrame

Spec == Init /\ [][Next]_vars

\* Requests handled by different workers interleave at the step boundaries.
ConcNext ==
    \/ RegisterSource /\ IngestorFrame
    \/ CreateDataset /\ IngestorFrame
    \/ \E p \in Procs : ingest_from_api(p, ConcDataFields) /\ IngestorFrame
    \/ \E p \in Procs : ingest_from_file(p, ConcFormats) /\ IngestorFrame
    \/ \E p \in Procs : ApiFetch(p, ConcHttpOutcomes) /\ IngestorFrame
    \/ \E p \in Procs : FileRead(p, ConcJsonFileOutcomes, ConcCsvFileOutcomes) /\ IngestorFrame
    \/ \E p \in Procs : Step(p) /\ IngestorFrame

ConcSpec == Init /\ [][ConcNext]_vars

(* ---------------------------- DataProcessor ---------------------------- *)
\* d[key] = v on a dict that has the key
DictSet(d, key, v) ==
    [d EXCEPT !.elems = [i \in 1..Len(d.keys) |-> IF d.keys[i] = key THEN v ELSE d.elems[i]]]

\* What a callable does with its argument: it raises, or returns a value.
Raised == [raised |-> TRUE, value |-> JNull]
Returned(v) == [raised |-> FALSE, value |-> v]

\* The callables given as cleaning rules: "strip" is str.strip (a padded
\* string JStr(2) becomes JStr(1); a number has no strip: AttributeError),
\* "zero" is lambda v: 0, "fail" raises on every value; "none" stands for
\* a field that is not a key of cleaning_rules.
RuleNames == {"none", "strip", "zero", "fail"}
CleaningRules == [name : RuleNames, price : RuleNames]
ApplyRule(rule, v) ==
    CASE rule = "strip" -> IF v.kind = "str" THEN Returned(JStr(1)) ELSE Raised
      [] rule = "zero" -> Returned(JNum(0))
      [] OTHER -> Raised

\* Lines 215-220: one rule on one record; record.data is assigned in place.
CleanField(data, field, rule) ==
    IF rule = "none" \/ ~HasKey(data, field) THEN data
    ELSE LET r == ApplyRule(rule, DictGet(data, field, JNull)) IN
         IF r.raised THEN data ELSE DictSet(data, field, r.value)
CleanRecord(data, rules) ==
    CleanField(CleanField(data, "name", rules.name), "price", rules.price)

\* The callables given as transformation_func: "identity" is
\* lambda d: dict(d), "zero_price" is lambda d: {**d, "price": d["price"] * 0}
\* (KeyError without a price), "fail" raises on every record.
TransformNames == {"identity", "zero_price", "fail"}
ApplyTransform(fn, data) ==
    CASE fn = "identity" -> Returned(data)
      [] fn = "zero_price" ->
            IF HasKey(data, "price") THEN Returned(DictSet(data, "price", JNum(0))) ELSE Raised
      [] OTHER -> Raised

\* Lines 238-247: one record of the loop; what record.data holds afterwards
\* and whether the record is counted.
Transformed(data, counted, assigned) ==
    [data |-> data, counted |-> counted, assigned |-> assigned]
TransformRecordCountsFailures(data, fn) ==
    LET r == ApplyTransform(fn, data) IN
    IF r.raised THEN Transformed(data, TRUE, FALSE)
    ELSE Transformed(r.value, r.value # data, TRUE)
TransformRecord(data, fn) ==
    LET r == ApplyTransform(fn, data) IN
    IF r.raised THEN Transformed(data, FALSE, FALSE)
    ELSE Transformed(r.value, r.value # data, TRUE)

\* Session.commit(): the UPDATE of a row carries the attributes that were
\* assigned on the object.  data is a plain Column(JSON) (models.py 45):
\* `record.data[field] = ...` changes the loaded dict in place and assigns
\* no attribute, so it is not written, and commit expires the object; only
\* `record.data = ...` and `record.updated_at = ...` reach the row.
Flush(row, mem, assigned) ==
    IF "data" \in assigned THEN [row EXCEPT !.data = mem] ELSE row

\* query(DataRecord).filter(DataRecord.dataset_id == dataset_id).all()
RecordsOf(recs, dataset_id) == {i \in 1..Len(recs) : recs[i].dataset_id = dataset_id}

\* Everything but the rows of data_records, their updated_at and the clock.
ProcessorFrame ==
    UNCHANGED <<data_sources, datasets, data_ingestion_logs, runs, invocations,
                data_analyses, facade, application>>

clean_data(dataset_id, cleaning_rules) ==
    /\ now < MaxCalls
    /\ LET records == RecordsOf(data_records, dataset_id)
           mem == [i \in 1..Len(data_records) |->
                      IF i \in records
                      THEN CleanRecord(data_records[i].data, cleaning_rules)
                      ELSE data_records[i].data]
           changed == {i \in records : mem[i] # data_records[i].data}
           assigned == [i \in 1..Len(data_records) |->
                           IF i \in changed THEN {"updated_at"} ELSE {}]
       IN /\ now' = now + 1
          /\ data_records' = [i \in 1..Len(data_records) |->
                                  Flush(data_records[i], mem[i], assigned[i])]
          /\ updated_at' = [i \in 1..Len(data_records) |->
                                IF "updated_at" \in assigned[i] THEN now' ELSE updated_at[i]]
          /\ call' = [op |-> "clean_data", dataset_id |-> dataset_id,
                      args |-> [NoArgs EXCEPT !.rules = cleaning_rules],
                      ret |-> Ret("return", Cardinality(changed)),
                      recs0 |-> data_records, upd0 |-> updated_at,
                      analyses0 |-> data_analyses, mem |-> mem]
    /\ ProcessorFrame

transform_data(dataset_id, transformation_func) ==
    /\ now < MaxCalls
    /\ LET records == RecordsOf(data_records, dataset_id)
           out == [i \in 1..Len(data_records) |->
                      IF i \in records
                      THEN TransformRecord(data_records[i].data, transformation_func)
                      ELSE Transformed(data_records[i].data, FALSE, FALSE)]
           assigned == [i \in 1..Len(data_records) |->
                           (IF out[i].assigned THEN {"data"} ELSE {})
                           \cup (IF out[i].counted THEN {"updated_at"} ELSE {})]
       IN /\ now' = now + 1
          /\ data_records' = [i \in 1..Len(data_records) |->
                                  Flush(data_records[i], out[i].data, assigned[i])]
          /\ updated_at' = [i \in 1..Len(data_records) |->
                                IF "updated_at" \in assigned[i] THEN now' ELSE updated_at[i]]
          /\ call' = [op |-> "transform_data", dataset_id |-> dataset_id,
                      args |-> [NoArgs EXCEPT !.fn = transformation_func],
                      ret |-> Ret("return",
                                  Cardinality({i \in records : out[i].counted})),
                      recs0 |-> data_records, upd0 |-> updated_at,
                      analyses0 |-> data_analyses,
                      mem |-> [i \in 1..Len(data_records) |-> out[i].data]]
    /\ ProcessorFrame

\* The stores a DataProcessor call works on: one source, two datasets and
\* up to MaxProcRecords records, added as RealWorldAIHub.load_sample_data
\* adds them (no ingestion log, record_count left at 0).
ProcPayloads ==
    {JDict(<<"name", "price">>, <<JStr(1), JNum(0)>>),
     JDict(<<"name", "price">>, <<JStr(2), JNum(1)>>),
     JDict(<<"name">>, <<JStr(2)>>)}
ProcRecords == {DataRecord(d, x, 1) : d \in 1..MaxDatasets, x \in ProcPayloads}
ProcStores == UNION {[1..m -> ProcRecords] : m \in 0..MaxProcRecords}

ProcInit ==
    /\ FacadeStart
    /\ ApplicationStart
    /\ data_sources = <<DataSource("s1", "API")>>
    /\ datasets = [d \in 1..MaxDatasets |-> Dataset("d1", 1)]
    /\ data_records \in ProcStores
    /\ data_ingestion_logs = <<>>
    /\ runs = [p \in Procs |-> IdleRun]
    /\ invocations = 0
    /\ updated_at = [i \in 1..Len(data_records) |-> 0]
    /\ data_analyses = <<>>
    /\ now = 0
    /\ call = NoCall

CleanData == \E d \in 1..MaxDatasets, rules \in CleaningRules : clean_data(d, rules)
TransformData == \E d \in 1..MaxDatasets, fn \in TransformNames : transform_data(d, fn)

ProcNext == CleanData \/ TransformData

ProcSpec == ProcInit /\ [][ProcNext]_vars

(* ----------------------------- DataAnalytics --------------------------- *)
\* [record.data for record in records], records being the rows of one
\* dataset in id order
DataOf(recs, dataset_id) ==
    LET rows == SelectSeq(recs, LAMBDA r : r.dataset_id = dataset_id) IN
    [i \in 1..Len(rows) |-> rows[i].data]

\* `if not records`
NoRecordsNever(rows) == FALSE
NoRecords(rows) == rows = <<>>
NoRecordsMessage == "No records found for this dataset"

\* pd.DataFrame(rows): the columns are the keys of the rows; a row that
\* lacks a key has a null (NaN) cell in that column.
Columns(rows) ==
    UNION {{rows[i].keys[k] : k \in 1..Len(rows[i].keys)} : i \in 1..Len(rows)}
Cell(row, field) == DictGet(row, field, JNull)
Column(rows, field) == [i \in 1..Len(rows) |-> Cell(rows[i], field)]
NonNull(col) == SelectSeq(col, LAMBDA v : v.kind # "null")
Values(col) == {col[i] : i \in 1..Len(col)}

\* The dtype pandas infers for a column: numbers (with or without NaN) make
\* a numeric column (int64 or float64), anything else makes it object.
Dtype(col) ==
    IF {v.kind : v \in Values(NonNull(col))} = {"num"} THEN "number" ELSE "object"
\* df.select_dtypes(include=[np.number]) / include=['object', 'category']
NumericColumns(rows) == {c \in Columns(rows) : Dtype(Column(rows, c)) = "number"}
ObjectColumns(rows) == {c \in Columns(rows) : Dtype(Column(rows, c)) = "object"}

\* pd.to_datetime on one cell (errors='raise'): a null is NaT, a number is
\* nanoseconds since the epoch, a string must read as a timestamp.
Timestamp(raised, null, t) == [raised |-> raised, null |-> null, t |-> t]
ToDatetime(v) ==
    CASE v.kind = "null" -> Timestamp(FALSE, TRUE, 0)
      [] v.kind = "num" -> Timestamp(FALSE, FALSE, 0)
      [] v.kind = "str" /\ v.keys = <<"iso8601">> -> Timestamp(FALSE, FALSE, v.elems[1].n)
      [] OTHER -> Timestamp(TRUE, FALSE, 0)
DatetimeRaises(rows, time_field) ==
    \E i \in 1..Len(rows) : ToDatetime(Cell(rows[i], time_field)).raised

\* pd.to_numeric(errors='coerce') on one cell: what is not a number (or
\* its digits) is NaN.
Numeric(null, v) == [null |-> null, v |-> v]
ToNumeric(v) ==
    CASE v.kind = "num" -> Numeric(FALSE, v.n)
      [] v.kind = "str" /\ v.keys = <<"decimal">> -> Numeric(FALSE, v.elems[1].n)
      [] OTHER -> Numeric(TRUE, 0)

\* dropna(subset=[time_field, value_field]): the rows with a timestamp and
\* a number, as points (t, y), in row order (reached only when no cell of
\* the time column made pd.to_datetime raise).
Point(t, y) == [t |-> t, y |-> y]
Points(rows, time_field, value_field) ==
    LET cells == [i \in 1..Len(rows) |->
                     [ts |-> ToDatetime(Cell(rows[i], time_field)),
                      num |-> ToNumeric(Cell(rows[i], value_field))]]
        valid == SelectSeq(cells, LAMBDA c : ~c.ts.raised /\ ~c.ts.null /\ ~c.num.null)
    IN [i \in 1..Len(valid) |-> Point(valid[i].ts.t, valid[i].num.v)]

\* sort_values(by=time_field); rows with equal timestamps keep their order
RECURSIVE SortByTime(_)
SortByTime(pts) ==
    IF pts = <<>> THEN <<>>
    ELSE LET h == Head(pts)
             rest == SortByTime(Tail(pts))
         IN SelectSeq(rest, LAMBDA q : q.t < h.t) \o <<h>>
            \o SelectSeq(rest, LAMBDA q : q.t >= h.t)

RECURSIVE Sum(_)
Sum(xs) == IF xs = <<>> THEN 0 ELSE Head(xs) + Sum(Tail(xs))
Min(S) == CHOOSE m \in S : \A k \in S : m <= k
Max(S) == CHOOSE m \in S : \A k \in S : m >= k

\* Line 115: (df[time_field] - df[time_field].min()).dt.days, the whole
\* days elapsed since the earliest timestamp.
HoursPerDay == 24
TimeIndex(pts) ==
    LET first == Min({pts[i].t : i \in 1..Len(pts)}) IN
    [i \in 1..Len(pts) |-> (pts[i].t - first) \div HoursPerDay]

\* stats.linregress(x, y): slope = ssxym / ssxm, here as the fraction
\* (n*Sxy - Sx*Sy) / (n*Sxx - Sx*Sx); it raises ValueError when all x are
\* identical (the denominator is 0).
SlopeNum(x, y) ==
    Len(x) * Sum([i \in 1..Len(x) |-> x[i] * y[i]]) - Sum(x) * Sum(y)
SlopeDen(x) == Len(x) * Sum([i \in 1..Len(x) |-> x[i] * x[i]]) - Sum(x) * Sum(x)
IdenticalX == "Cannot calculate a linear regression if all x values are identical"

\* Line 129, given the slope as a fraction with a positive denominator
Direction(slope) ==
    IF slope[1] > 0 THEN "increasing" ELSE IF slope[1] < 0 THEN "decreasing" ELSE "stable"

\* Lines 122-143
TrendResults(pts) ==
    LET x == TimeIndex(pts)
        y == [i \in 1..Len(pts) |-> pts[i].y]
        slope == <<SlopeNum(x, y), SlopeDen(x)>>
    IN [NoResults EXCEPT
           !.total = Len(pts), !.slope = slope, !.direction = Direction(slope),
           !.date_range = <<Min({pts[i].t : i \in 1..Len(pts)}),
                            Max({pts[i].t : i \in 1..Len(pts)})>>,
           !.value_range = <<Min(Values(y)), Max(Values(y))>>]

RequiredFieldsMessage(time_field, value_field) ==
    "Required fields not found: " \o time_field \o ", " \o value_field
NotEnoughPoints == "Not enough valid data points for trend analysis"

\* Lines 85-143 and 162-164: what run_trend_analysis computes before it
\* stores anything.  pd.to_datetime (line 99) stands before the try.
Trend(rows, time_field, value_field) ==
    IF NoRecords(rows) THEN ErrorResult(NoRecordsMessage)
    ELSE IF time_field \notin Columns(rows) \/ value_field \notin Columns(rows)
    THEN ErrorResult(RequiredFieldsMessage(time_field, value_field))
    ELSE IF DatetimeRaises(rows, time_field) THEN Exception("DateParseError")
    ELSE LET pts == Points(rows, time_field, value_field) IN
         IF Len(pts) < 2 THEN ErrorResult(NotEnoughPoints)
         ELSE IF SlopeDen(TimeIndex(pts)) = 0 THEN ErrorResult(IdenticalX)
         ELSE AnalysisResult(0, TrendResults(pts))

\* value_counts() of a column: the non-null values with their counts
ValueCounts(col) ==
    {<<v, Cardinality({i \in 1..Len(col) : col[i] = v})>> : v \in Values(NonNull(col))}
\* a dict or list cell cannot be hashed: value_counts raises TypeError
Unhashable(col) == \E v \in Values(col) : v.kind \in {"dict", "list"}

NoNumericColumns == "No numeric columns found"
NoCorrelations == "Not enough numeric columns for correlation analysis"

\* Lines 19-63: what run_statistical_analysis computes before it stores
\* anything.  descriptive: per numeric column its count of non-null cells;
\* categorical: per object column its number of distinct values and its
\* top_values.
StatisticalResults(rows, analysis_params) ==
    LET numeric == NumericColumns(rows) IN
    [NoResults EXCEPT
        !.descriptive =
            IF ~analysis_params.include_descriptive_stats THEN {}
            ELSE IF numeric # {}
            THEN {<<c, Len(NonNull(Column(rows, c)))>> : c \in numeric}
            ELSE {<<NoNumericColumns, 0>>},
        !.correlations =
            IF ~analysis_params.include_correlations THEN {}
            ELSE IF Cardinality(numeric) > 1
            THEN {<<c, Cardinality(numeric)>> : c \in numeric}
            ELSE {<<NoCorrelations, 0>>},
        !.categorical =
            {[column |-> c,
              unique_values |-> Cardinality(ValueCounts(Column(rows, c))),
              top_values |-> ValueCounts(Column(rows, c))] : c \in ObjectColumns(rows)}]
Statistical(rows, analysis_params) ==
    IF NoRecords(rows) THEN ErrorResult(NoRecordsMessage)
    ELSE IF \E c \in ObjectColumns(rows) : Unhashable(Column(rows, c))
    THEN Exception("TypeError: unhashable type")
    ELSE AnalysisResult(0, StatisticalResults(rows, analysis_params))

\* Lines 168-200: what run_summary_analysis computes before it stores
\* anything.  df.memory_usage(deep=True).sum() (line 182) is a numpy.int64.
SummaryResults(rows) ==
    [NoResults EXCEPT
        !.total = Len(rows), !.columns = Columns(rows),
        !.descriptive = {<<c, Len(NonNull(Column(rows, c)))>> : c \in NumericColumns(rows)},
        !.memory_usage = "numpy.int64"]
Summary(rows) ==
    IF NoRecords(rows) THEN ErrorResult(NoRecordsMessage)
    ELSE AnalysisResult(0, SummaryResults(rows))

\* json.dumps of a results dict, as the JSON column type applies it when
\* the row is inserted: a numpy.int64 is not JSON serializable (TypeError,
\* raised by commit as StatementError); the keys of a dict become strings.
JsonSerializable(results) == results.memory_usage # "numpy.int64"
JsonKey(label) == IF label.kind = "num" THEN JDecimal(label.n) ELSE label
\* json.loads(json.dumps(results)): what the row holds
JsonRoundTrip(results) ==
    [results EXCEPT !.categorical =
        {[c EXCEPT !.top_values = {<<JsonKey(e[1]), e[2]>> : e \in c.top_values}] :
            c \in results.categorical}]

DataAnalysis(dataset_id, analysis_type, parameters, results) ==
    [dataset_id |-> dataset_id, analysis_type |-> analysis_type,
     parameters |-> parameters, results |-> results]

\* db_session.add(analysis); db_session.commit(): a new row, with the next id
AddOrReplaceAnalysis(analyses, row) ==
    IF \E i \in 1..Len(analyses) :
           analyses[i].dataset_id = row.dataset_id
           /\ analyses[i].analysis_type = row.analysis_type
    THEN [i \in 1..Len(analyses) |->
             IF analyses[i].dataset_id = row.dataset_id
                /\ analyses[i].analysis_type = row.analysis_type
             THEN row ELSE analyses[i]]
    ELSE Append(analyses, row)
AddAnalysis(analyses, row) == Append(analyses, row)

\* What a DataAnalytics or DataVisualization call leaves alone.
AnalyticsFrame ==
    UNCHANGED <<data_sources, datasets, data_records, data_ingestion_logs, runs,
                invocations, updated_at, now, facade, application>>

Called(op, dataset_id, args, ret) ==
    [op |-> op, dataset_id |-> dataset_id, args |-> args, ret |-> ret,
     recs0 |-> data_records, upd0 |-> updated_at, analyses0 |-> data_analyses,
     mem |-> <<>>]

\* Lines 66-81, 146-161, 203-218: store the results computed (out) as a new
\* row and return them with the row's id; an {"error": ...} computed
\* before is returned as it is and an exception goes to the caller.
StoreAndReturn(op, dataset_id, args, analysis_type, out) ==
    /\ Len(data_analyses) < MaxAnalyses
    /\ IF out.tag # "return"
       THEN /\ data_analyses' = data_analyses
            /\ call' = Called(op, dataset_id, args, out)
       ELSE IF ~JsonSerializable(out.results)
       THEN /\ data_analyses' = data_analyses
            /\ call' = Called(op, dataset_id, args,
                    Exception("StatementError: Object of type int64 is not JSON serializable"))
       ELSE /\ data_analyses' =
                   AddAnalysis(data_analyses,
                       DataAnalysis(dataset_id, analysis_type, args, JsonRoundTrip(out.results)))
            /\ call' = Called(op, dataset_id, args, [out EXCEPT !.n = Len(data_analyses')])
    /\ AnalyticsFrame

run_statistical_analysis(dataset_id, analysis_params) ==
    StoreAndReturn("run_statistical_analysis", dataset_id,
        [NoArgs EXCEPT !.analysis_params = analysis_params], "statistical",
        Statistical(DataOf(data_records, dataset_id), analysis_params))

run_trend_analysis(dataset_id, time_field, value_field) ==
    StoreAndReturn("run_trend_analysis", dataset_id,
        [NoArgs EXCEPT !.time_field = time_field, !.value_field = value_field], "trend",
        Trend(DataOf(data_records, dataset_id), time_field, value_field))

run_summary_analysis(dataset_id) ==
    StoreAndReturn("run_summary_analysis", dataset_id, NoArgs, "summary",
        Summary(DataOf(data_records, dataset_id)))

\* Lines 220-238: `if dataset_id:` filters; the list returned has one entry
\* per row.
get_analysis_history(dataset_id) ==
    /\ call' = Called("get_analysis_history", dataset_id, NoArgs,
            Ret("return", Cardinality({i \in 1..Len(data_analyses) :
                    dataset_id = 0 \/ data_analyses[i].dataset_id = dataset_id})))
    /\ UNCHANGED data_analyses
    /\ AnalyticsFrame

\* Lines 240-256: None when no row has the id
get_analysis_result(analysis_id) ==
    /\ call' = Called("get_analysis_result", 0, [NoArgs EXCEPT !.analysis_id = analysis_id],
            IF analysis_id \in 1..Len(data_analyses)
            THEN AnalysisResult(analysis_id, data_analyses[analysis_id].results)
            ELSE Ret("return", 0))
    /\ UNCHANGED data_analyses
    /\ AnalyticsFrame

(* --------------------------- DataVisualization ------------------------- *)
XFieldMessage(x_field) == "X field '" \o x_field \o "' not found in dataset"
YFieldMessage(y_field) == "Y field '" \o y_field \o "' not found in dataset"
NotCategorical(x_field) == "Field '" \o x_field \o "' is not categorical, cannot create pie chart"
NoNumericData(x_field) == "Field '" \o x_field \o "' has no numeric data for histogram"
UnsupportedChart(chart_type) == "Unsupported chart type: " \o chart_type

\* Line 323: df[x_field].dtype == 'object' or ...name == 'category'
CategoricalAlways(dtype) == TRUE
Categorical(dtype) == dtype \in {"object", "category"}

\* Lines 285-291 / 305-311: the x cells and the numeric y values of the
\* rows where neither is null
Axes(rows, x_field, y_field) ==
    LET cells == [i \in 1..Len(rows) |->
                     [x |-> Cell(rows[i], x_field),
                      num |-> ToNumeric(Cell(rows[i], y_field))]]
    IN SelectSeq(cells, LAMBDA c : c.x.kind # "null" /\ ~c.num.null)

\* Line 341: np.histogram(values, bins=20).  The outer edges are the least
\* and the greatest value, moved half a unit apart when they are equal;
\* they are kept here in half units, <<first, last>>.
Bins == 20
OuterEdges(values) ==
    LET S == {values[i] : i \in 1..Len(values)} IN
    IF Min(S) = Max(S) THEN <<2 * Min(S) - 1, 2 * Max(S) + 1>>
    ELSE <<2 * Min(S), 2 * Max(S)>>
\* The bin a value falls in, counted from 0: the bins have equal width and
\* are closed on the left, the last one on both sides.
BinIndexHalfOpen(v, first, last) == ((2 * v - first) * Bins) \div (last - first)
BinIndex(v, first, last) ==
    IF 2 * v = last THEN Bins - 1
    ELSE ((2 * v - first) * Bins) \div (last - first)
\* bins[0]: the number of values in each bin
Histogram(values) ==
    LET e == OuterEdges(values) IN
    [k \in 1..Bins |->
        Cardinality({i \in 1..Len(values) : BinIndex(values[i], e[1], e[2]) = k - 1})]
\* bins[1]: the Bins + 1 edges, each a fraction <<numerator, denominator>>
BinEdges(values) ==
    LET e == OuterEdges(values) IN
    [k \in 1..(Bins + 1) |-> <<Bins * e[1] + (k - 1) * (e[2] - e[1]), 2 * Bins>>]

\* Lines 267-352.  A histogram's edges are in x and its counts in y.
ChartData(rows, chart_type, x_field, y_field) ==
    IF NoRecords(rows) THEN ErrorResult(NoRecordsMessage)
    ELSE IF x_field \notin Columns(rows) THEN ErrorResult(XFieldMessage(x_field))
    ELSE IF chart_type \in {"line", "bar", "scatter"}
    THEN IF y_field \notin Columns(rows) THEN ErrorResult(YFieldMessage(y_field))
         ELSE LET axes == Axes(rows, x_field, y_field) IN
              ChartResult(Chart(chart_type, [i \in 1..Len(axes) |-> axes[i].x],
                                [i \in 1..Len(axes) |-> JNum(axes[i].num.v)], {}))
    ELSE IF chart_type = "pie"
    THEN IF Categorical(Dtype(Column(rows, x_field)))
         THEN IF Unhashable(Column(rows, x_field))
              THEN Exception("TypeError: unhashable type")
              ELSE ChartResult(Chart(chart_type, <<>>, <<>>,
                                     ValueCounts(Column(rows, x_field))))
         ELSE ErrorResult(NotCategorical(x_field))
    ELSE IF chart_type = "histogram"
    THEN LET col == Column(rows, x_field)
             coerced == SelectSeq([i \in 1..Len(col) |-> ToNumeric(col[i])],
                                  LAMBDA c : ~c.null)
             values == [i \in 1..Len(coerced) |-> coerced[i].v]
         IN IF values = <<>> THEN ErrorResult(NoNumericData(x_field))
            ELSE ChartResult(Chart(chart_type, BinEdges(values), Histogram(values), {}))
    ELSE ErrorResult(UnsupportedChart(chart_type))

generate_chart_data(dataset_id, chart_type, x_field, y_field) ==
    /\ call' = Called("generate_chart_data", dataset_id,
            [NoArgs EXCEPT !.chart_type = chart_type, !.x_field = x_field,
                           !.y_field = y_field],
            ChartData(DataOf(data_records, dataset_id), chart_type, x_field, y_field))
    /\ UNCHANGED data_analyses
    /\ AnalyticsFrame

\* Lines 356-384; no statement of it stands in a try.
TimeSeries(rows, time_field, value_field) ==
    IF NoRecords(rows) THEN ErrorResult(NoRecordsMessage)
    ELSE IF time_field \notin Columns(rows) \/ value_field \notin Columns(rows)
    THEN ErrorResult(RequiredFieldsMessage(time_field, value_field))
    ELSE IF DatetimeRaises(rows, time_field) THEN Exception("DateParseError")
    ELSE LET pts == SortByTime(Points(rows, time_field, value_field)) IN
         ChartResult(Chart("time_series", [i \in 1..Len(pts) |-> JIso(pts[i].t)],
                           [i \in 1..Len(pts) |-> JNum(pts[i].y)], {}))

generate_time_series_data(dataset_id, time_field, value_field) ==
    /\ call' = Called("generate_time_series_data", dataset_id,
            [NoArgs EXCEPT !.time_field = time_field, !.value_field = value_field],
            TimeSeries(DataOf(data_records, dataset_id), time_field, value_field))
    /\ UNCHANGED data_analyses
    /\ AnalyticsFrame

\* The caller takes what the call returned.
ReturnToCaller ==
    /\ call # NoCall
    /\ call' = NoCall
    /\ UNCHANGED <<data_sources, datasets, data_records, data_ingestion_logs, runs,
                   invocations, updated_at, data_analyses, now, facade, application>>

(* ------------------- trend and time series over a dataset -------------- *)
\* Records shaped like the sample data of RealWorldAIHub.load_sample_data:
\* a name, a date (a timestamp, a text that is none, or no date key) and a
\* price (a number or a text that is none).
NotADate == JStr(1)
NotANumber == JStr(1)
Sample(date, price) ==
    IF date = JNull THEN JDict(<<"name", "price">>, <<JStr(1), price>>)
    ELSE JDict(<<"name", "date", "price">>, <<JStr(1), date, price>>)
TrendDates == {JIso(0), JIso(6), JIso(24), NotADate, JNull}
TrendPrices == {JNum(1), JNum(2), JNum(3), NotANumber}
TrendRecords == {DataRecord(1, Sample(d, v), 1) : d \in TrendDates, v \in TrendPrices}
TrendStores == UNION {[1..m -> TrendRecords] : m \in 0..MaxTrendRecords}

\* One source, two datasets (the second without records), the records
\* added as load_sample_data adds them.
StoreInit(stores) ==
    /\ FacadeStart
    /\ ApplicationStart
    /\ data_sources = <<DataSource("s1", "API")>>
    /\ datasets = [d \in 1..MaxDatasets |-> Dataset("d1", 1)]
    /\ data_records \in stores
    /\ data_ingestion_logs = <<>>
    /\ runs = [p \in Procs |-> IdleRun]
    /\ invocations = 0
    /\ updated_at = [i \in 1..Len(data_records) |-> 0]
    /\ data_analyses = <<>>
    /\ now = 0
    /\ call = NoCall
TrendInit == StoreInit(TrendStores)

TimeFields == {"date", "missing"}
ValueFields == {"price", "missing"}
Idle == call = NoCall /\ AllIdle

RunTrendAnalysis ==
    \E d \in 1..MaxDatasets, time_field \in TimeFields, value_field \in ValueFields :
        run_trend_analysis(d, time_field, value_field)
GenerateTimeSeriesData ==
    \E d \in 1..MaxDatasets, time_field \in TimeFields, value_field \in ValueFields :
        generate_time_series_data(d, time_field, value_field)

TrendNext ==
    \/ Idle /\ RunTrendAnalysis
    \/ Idle /\ GenerateTimeSeriesData
    \/ ReturnToCaller

TrendSpec == TrendInit /\ [][TrendNext]_vars

(* -------------------- analyses and charts over a dataset --------------- *)
\* Up to MaxAnaRecords records in either dataset: dated prices, a record
\* whose price is text and that has no date, a record whose date is text,
\* a record whose price is the digits of a number.
AnaPayloads ==
    {Sample(JIso(0), JNum(1)), Sample(JIso(24), JNum(2)),
     Sample(JNull, NotANumber), Sample(NotADate, JNum(1)),
     Sample(JIso(0), JDecimal(3))}
AnaRecords == {DataRecord(d, x, 1) : d \in 1..MaxDatasets, x \in AnaPayloads}
AnaStores == UNION {[1..m -> AnaRecords] : m \in 0..MaxAnaRecords}
AnaInit == StoreInit(AnaStores)

AnalysisParams == {DefaultParams, [include_descriptive_stats |-> FALSE, include_correlations |-> TRUE]}
ChartTypes == {"line", "bar", "scatter", "pie", "histogram", "radar"}
XFields == {"date", "price", "missing"}
YFields == {"price", "None"}

RunStatisticalAnalysis ==
    \E d \in 1..MaxDatasets, analysis_params \in AnalysisParams :
        run_statistical_analysis(d, analysis_params)
RunSummaryAnalysis == \E d \in 1..MaxDatasets : run_summary_analysis(d)
GetAnalysisHistory == \E d \in 0..MaxDatasets : get_analysis_history(d)
GetAnalysisResult == \E id \in 1..MaxAnalyses : get_analysis_result(id)
GenerateChartData ==
    \E d \in 1..MaxDatasets, chart_type \in ChartTypes, x_field \in XFields,
       y_field \in YFields :
        generate_chart_data(d, chart_type, x_field, y_field)

AnaNext ==
    \/ Idle /\ RunStatisticalAnalysis
    \/ Idle /\ RunTrendAnalysis
    \/ Idle /\ RunSummaryAnalysis
    \/ Idle /\ GetAnalysisHistory
    \/ Idle /\ GetAnalysisResult
    \/ Idle /\ GenerateChartData
    \/ Idle /\ GenerateTimeSeriesData
    \/ ReturnToCaller

AnaSpec == AnaInit /\ [][AnaNext]_vars

(* --------------------- every operation of the hub ---------------------- *)
\* The hub with two dated records in its first dataset, or none, and one
\* call at a time of each operation: ingestion runs (a one-item API
\* response, a file that cannot be opened), cleaning, transformation,
\* the analyses, the reads and the charts.
HubStores ==
    {<<>>,
     <<DataRecord(1, Sample(JIso(0), JNum(1)), 1), DataRecord(1, Sample(JIso(24), JNum(2)), 1)>>}
HubInit == StoreInit(HubStores)
HubHttpOutcomes == {Payload("", 200, TRUE, JList(<<Row(1)>>))}
HubJsonFileOutcomes == {Payload("FileNotFoundError", 0, FALSE, JNull)}
HubRules == {[name |-> "strip", price |-> "zero"]}

HubNext ==
    \/ Idle /\ ingest_from_api(MainThread, {NoField}) /\ IngestorFrame
    \/ Idle /\ ingest_from_file(MainThread, {"json"}) /\ IngestorFrame
    \/ ApiFetch(MainThread, HubHttpOutcomes) /\ IngestorFrame
    \/ FileRead(MainThread, HubJsonFileOutcomes, {}) /\ IngestorFrame
    \/ Step(MainThread) /\ IngestorFrame
    \/ Idle /\ \E d \in 1..MaxDatasets, rules \in HubRules : clean_data(d, rules)
    \/ Idle /\ \E d \in 1..MaxDatasets : transform_data(d, "zero_price")
    \/ Idle /\ \E d \in 1..MaxDatasets : run_statistical_analysis(d, DefaultParams)
    \/ Idle /\ \E d \in 1..MaxDatasets : run_trend_analysis(d, "date", "price")
    \/ Idle /\ \E d \in 1..MaxDatasets : run_summary_analysis(d)
    \/ Idle /\ GetAnalysisHistory
    \/ Idle /\ GetAnalysisResult
    \/ Idle /\ \E d \in 1..MaxDatasets : generate_chart_data(d, "pie", "date", "None")
    \/ Idle /\ \E d \in 1..MaxDatasets : generate_time_series_data(d, "date", "price")
    \/ ReturnToCaller

HubSpec == HubInit /\ [][HubNext]_vars

(* ------------- interleaved ingestion with the processor ---------------- *)
\* The interleaved runs of ConcSpec, and between two of their steps one
\* call of clean_data or transform_data on a dataset.
PipelineNext ==
    \/ call = NoCall /\ RegisterSource /\ IngestorFrame
    \/ call = NoCall /\ CreateDataset /\ IngestorFrame
    \/ call = NoCall /\ \E p \in Procs : ingest_from_api(p, ConcDataFields) /\ IngestorFrame
    \/ call = NoCall /\ \E p \in Procs : ingest_from_file(p, ConcFormats) /\ IngestorFrame
    \/ call = NoCall /\ \E p \in Procs : ApiFetch(p, ConcHttpOutcomes) /\ IngestorFrame
    \/ call = NoCall /\ \E p \in Procs : FileRead(p, ConcJsonFileOutcomes, ConcCsvFileOutcomes) /\ IngestorFrame
    \/ call = NoCall /\ \E p \in Procs : Step(p) /\ IngestorFrame
    \/ now = 0 /\ \E d \in 1..Len(datasets), rules \in HubRules : clean_data(d, rules)
    \/ now = 0 /\ \E d \in 1..Len(datasets) : transform_data(d, "zero_price")
    \/ ReturnToCaller

PipelineSpec == Init /\ [][PipelineNext]_vars

(* ------------------------- APIHandler (api.py) ------------------------- *)
\* jsonify({"status": "success", "data": ...}) and
\* jsonify({"status": "error", "message": ...}), status_code
Answer(route, dataset_id, limit, offset, status_code, status, message, data) ==
    [route |-> route, dataset_id |-> dataset_id, limit |-> limit, offset |-> offset,
     status_code |-> status_code, status |-> status, message |-> message,
     data |-> data, queries0 |-> data_queries]
Success(route, dataset_id, data) == Answer(route, dataset_id, 0, 0, 200, "success", "", data)
Error(route, dataset_id, status_code, message) ==
    Answer(route, dataset_id, 0, 0, status_code, "error", message, <<>>)

DataQuery(query_text, dataset_id, count) ==
    [user_id |-> 1, query_text |-> query_text, dataset_id |-> dataset_id, count |-> count]

\* the ids of the records of a dataset, in id order
RecordIds(dataset_id) ==
    SelectSeq([i \in 1..Len(data_records) |-> i],
              LAMBDA i : data_records[i].dataset_id = dataset_id)

\* query.offset(offset).limit(limit).all() on SQLite: a negative OFFSET
\* skips nothing and a negative LIMIT has no upper bound.
Page(ids, offset, limit) ==
    LET rest == SubSeq(ids, (IF offset < 0 THEN 0 ELSE offset) + 1, Len(ids)) IN
    IF limit < 0 \/ limit >= Len(rest) THEN rest ELSE SubSeq(rest, 1, limit)

FacadeFrame ==
    UNCHANGED <<data_sources, datasets, data_records, data_ingestion_logs, runs,
                invocations, updated_at, data_analyses, now, call, application>>

\* Lines 31-51
get_dataset(dataset_id) ==
    /\ response' = IF ~DatasetExists(dataset_id)
                    THEN Error("get_dataset", dataset_id, 404, "Dataset not found")
                    ELSE Success("get_dataset", dataset_id, <<>>)
    /\ UNCHANGED data_queries
    /\ FacadeFrame

\* Lines 53-97.  filter is the `filter` argument: absent, a text that is
\* not JSON, "{}", or an object with a key, for which line 72 asks the
\* generic JSON column for `.astext`, an attribute it does not have.
Filters == {"", "not json", "{}", "{\"name\": \"A\"}"}
get_dataset_records(dataset_id, limit, offset, filter) ==
    /\ response' =
          IF filter = "not json"
          THEN Answer("get_dataset_records", dataset_id, limit, offset, 400, "error",
                      "Invalid filter query", <<>>)
          ELSE IF filter \notin {"", "{}"}
          THEN Answer("get_dataset_records", dataset_id, limit, offset, 500, "error",
                      "AttributeError: astext", <<>>)
          ELSE Answer("get_dataset_records", dataset_id, limit, offset, 200, "success", "",
                      Page(RecordIds(dataset_id), offset, limit))
    /\ UNCHANGED data_queries
    /\ FacadeFrame

\* Lines 99-137.  json is whether the request carries a JSON body
\* (request.json raises otherwise).
query_dataset(dataset_id, json, query_text) ==
    /\ Len(data_queries) < MaxQueries
    /\ IF ~json
       THEN /\ response' = Error("query_dataset", dataset_id, 500, "UnsupportedMediaType")
            /\ UNCHANGED data_queries
       ELSE LET result == RecordIds(dataset_id) IN
            /\ data_queries' = Append(data_queries, DataQuery(query_text, dataset_id, Len(result)))
            /\ response' = Success("query_dataset", dataset_id, result)
    /\ FacadeFrame

\* Lines 237-286
describe_dataset(dataset_id) ==
    /\ response' = IF ~DatasetExists(dataset_id)
                    THEN Error("describe_dataset", dataset_id, 404, "Dataset not found")
                    ELSE Success("describe_dataset", dataset_id, <<>>)
    /\ UNCHANGED data_queries
    /\ FacadeFrame

\* The store the facade is asked about: both datasets exist, with up to
\* MaxApiRecords records between them.
ListedRecords == {DataRecord(d, Row(1), 1) : d \in 1..MaxDatasets}
ApiStores == UNION {[1..m -> ListedRecords] : m \in 0..MaxApiRecords}
ApiInit == StoreInit(ApiStores)

\* a dataset id of the store or one past the last
DatasetIds == 1..(MaxDatasets + 1)
Limits == (0 - 1)..MaxApiRecords
Offsets == (0 - 1)..MaxApiRecords

GetDataset == \E d \in DatasetIds : get_dataset(d)
GetDatasetRecords ==
    \E d \in DatasetIds, limit \in Limits, offset \in Offsets, filter \in Filters :
        get_dataset_records(d, limit, offset, filter)
QueryDataset ==
    \E d \in DatasetIds, json \in BOOLEAN, query_text \in {"q"} :
        query_dataset(d, json, query_text)
DescribeDataset == \E d \in DatasetIds : describe_dataset(d)

ApiNext ==
    \/ GetDataset
    \/ GetDatasetRecords
    \/ QueryDataset
    \/ DescribeDataset

ApiSpec == ApiInit /\ [][ApiNext]_vars

\* Lines 139-188 and 190-235: the first statement that touches the store,
\* `self.db_session.query(DataSource)` (152, 201), names a class api.py
\* does not import (line 3); the NameError is caught at 187 / 234.
NameErrorMessage == "name 'DataSource' is not defined"
post_ingest_api(source_name, dataset_name) ==
    /\ response' = Error("ingest_from_api", 0, 500, NameErrorMessage)
    /\ UNCHANGED data_queries
    /\ FacadeFrame
post_ingest_file(source_name, dataset_name) ==
    /\ response' = Error("ingest_from_file", 0, 500, NameErrorMessage)
    /\ UNCHANGED data_queries
    /\ FacadeFrame

\* Two registered sources with a dataset each; ingestion is asked for
\* through the routes and of the DataIngestor itself (as
\* RealWorldAIHub.ingest_from_api and ingest_from_file do, main.py 66-78),
\* one call at a time.
TwoSourcesInit ==
    /\ FacadeStart
    /\ ApplicationStart
    /\ data_sources = <<DataSource("s1", "API"), DataSource("s2", "API")>>
    /\ datasets = <<Dataset("d1", 1), Dataset("d2", 2)>>
    /\ data_records = <<>>
    /\ data_ingestion_logs = <<>>
    /\ runs = [p \in Procs |-> IdleRun]
    /\ invocations = 0
    /\ updated_at = <<>>
    /\ data_analyses = <<>>
    /\ now = 0
    /\ call = NoCall

PostIngestApi ==
    \E source_name \in {"s1", "s2", "s3"}, dataset_name \in {"d1", "d2", "d3"} :
        post_ingest_api(source_name, dataset_name)
PostIngestFile ==
    \E source_name \in {"s1", "s2", "s3"}, dataset_name \in {"d1", "d2", "d3"} :
        post_ingest_file(source_name, dataset_name)

IngestRoutesNext ==
    \/ AllIdle /\ PostIngestApi
    \/ AllIdle /\ PostIngestFile
    \/ AllIdle /\ ingest_from_api(MainThread, {NoField}) /\ IngestorFrame
    \/ AllIdle /\ ingest_from_file(MainThread, {"json"}) /\ IngestorFrame
    \/ ApiFetch(MainThread, HubHttpOutcomes) /\ IngestorFrame
    \/ FileRead(MainThread, HubJsonFileOutcomes, {}) /\ IngestorFrame
    \/ Step(MainThread) /\ IngestorFrame

IngestRoutesSpec == TwoSourcesInit /\ [][IngestRoutesNext]_vars

(* --------------------- the cache decorator (app.py) -------------------- *)
\* Line 35; the clock moves in halves of it.
CACHE_TIMEOUT == 3600

\* _CACHE[key] = (value, timestamp); call is the invocation of func that
\* produced the value.
Entry(value, timestamp, n) == [value |-> value, timestamp |-> timestamp, call |-> n]
\* `_CACHE[key] = entry`
DictStore(d, key, entry) ==
    [k \in DOMAIN d \cup {key} |-> IF k = key THEN entry ELSE d[k]]

\* Lines 43-46: the key is cached and `now - timestamp < timeout`
FreshUntilEqual(key, t) == key \in DOMAIN CACHE /\ t - CACHE[key].timestamp <= CACHE_TIMEOUT
Fresh(key, t) == key \in DOMAIN CACHE /\ t - CACHE[key].timestamp < CACHE_TIMEOUT

\* The cached functions.  The four lookups of lines 63-137 are alike: the
\* upstream request and the reading of its answer stand in a try whose
\* except logs, and the function then returns the "N/A" placeholder; two
\* of them are modelled.  "func" is any other function given to cached,
\* which returns a value or raises.
Lookups == {"get_gdp_per_capita", "get_exchange_rates"}
Funcs == Lookups \cup {"func"}
GoodValues == {"a", "b"}
Placeholder == "N/A"
Ended(failed, result) == [failed |-> failed, result |-> result]
\* what a run of func can end with
Outcomes(func) ==
    IF func \in Lookups
    THEN {Ended(FALSE, v) : v \in GoodValues} \cup {Ended(FALSE, Placeholder)}
    ELSE {Ended(FALSE, v) : v \in GoodValues} \cup {Ended(TRUE, "")}

ApplicationFrame ==
    UNCHANGED <<data_sources, datasets, data_records, data_ingestion_logs, runs,
                invocations, updated_at, data_analyses, now, call, facade>>

\* Lines 41-46: wrapper is entered; a fresh entry is returned at once.
Enter(t, func) ==
    /\ threads[t].pc = "idle"
    /\ threads' = [threads EXCEPT ![t] =
          IF Fresh(func, clock)
          THEN [IdleThread EXCEPT !.pc = "done", !.func = func, !.now = clock,
                                  !.ret = CACHE[func].value, !.CACHE0 = CACHE]
          ELSE [IdleThread EXCEPT !.pc = "try", !.func = func, !.now = clock,
                                  !.CACHE0 = CACHE]]
    /\ UNCHANGED <<CACHE, clock, upstream_calls>>
    /\ ApplicationFrame

\* Line 48: func runs and ends.
Invoke(t) ==
    /\ threads[t].pc = "try"
    /\ upstream_calls < MaxUpstreamCalls
    /\ upstream_calls' = upstream_calls + 1
    /\ \E out \in Outcomes(threads[t].func) :
          threads' = [threads EXCEPT ![t].pc = IF out.failed THEN "except" ELSE "store",
                                     ![t].result = out.result,
                                     ![t].failed = out.failed,
                                     ![t].call = upstream_calls + 1]
    /\ UNCHANGED <<CACHE, clock>>
    /\ ApplicationFrame

\* Lines 49-50
Store(t) ==
    /\ threads[t].pc = "store"
    /\ CACHE' = DictStore(CACHE, threads[t].func,
                          Entry(threads[t].result, threads[t].now, threads[t].call))
    /\ threads' = [threads EXCEPT ![t].pc = "done", ![t].ret = threads[t].result]
    /\ UNCHANGED <<clock, upstream_calls>>
    /\ ApplicationFrame

\* Lines 51-55
ExceptAlwaysRaises(t) ==
    /\ threads[t].pc = "except"
    /\ threads' = [threads EXCEPT ![t].pc = "done", ![t].raised = TRUE]
    /\ UNCHANGED <<CACHE, clock, upstream_calls>>
    /\ ApplicationFrame
Except(t) ==
    /\ threads[t].pc = "except"
    /\ threads' = [threads EXCEPT ![t] =
          IF threads[t].func \in DOMAIN CACHE
          THEN [@ EXCEPT !.pc = "done", !.ret = CACHE[threads[t].func].value]
          ELSE [@ EXCEPT !.pc = "done", !.raised = TRUE]]
    /\ UNCHANGED <<CACHE, clock, upstream_calls>>
    /\ ApplicationFrame

\* The caller has what wrapper handed back; the thread serves the next request.
Leave(t) ==
    /\ threads[t].pc = "done"
    /\ threads' = [threads EXCEPT ![t] = IdleThread]
    /\ UNCHANGED <<CACHE, clock, upstream_calls>>
    /\ ApplicationFrame

\* time.time() moves on
Tick ==
    /\ clock + CACHE_TIMEOUT \div 2 <= MaxClock
    /\ clock' = clock + CACHE_TIMEOUT \div 2
    /\ UNCHANGED <<CACHE, threads, upstream_calls>>
    /\ ApplicationFrame

NoThreadInside == \A t \in Procs : threads[t].pc = "idle"

\* One request at a time.
CacheNext ==
    \/ NoThreadInside /\ \E func \in Funcs : Enter(MainThread, func)
    \/ Invoke(MainThread)
    \/ Store(MainThread)
    \/ Except(MainThread)
    \/ Leave(MainThread)
    \/ Tick

CacheSpec == Init /\ [][CacheNext]_vars

\* The server handles requests on threads of its own (app.run, line 565),
\* which share _CACHE; here they call one cached function, which returns
\* or raises.
ConcFuncs == {"func"}
CacheConcNext ==
    \/ \E t \in Procs, func \in ConcFuncs : Enter(t, func)
    \/ \E t \in Procs : Invoke(t)
    \/ \E t \in Procs : Store(t)
    \/ \E t \in Procs : Except(t)
    \/ \E t \in Procs : Leave(t)
    \/ Tick

CacheConcSpec == Init /\ [][CacheConcNext]_vars

(* ------------------------------ properties ----------------------------- *)
Done(p) == runs[p].pc = "done"
LogOf(p) == data_ingestion_logs[runs[p].log]
TargetOf(p) == datasets[runs[p].dataset_id]
NumRecordsOf(dataset_id) ==
    Cardinality({i \in 1..Len(data_records) : data_records[i].dataset_id = dataset_id})
FetchOk(p) ==
    runs[p].src.exc = "" /\ runs[p].src.parse_ok
    /\ (runs[p].op = "api" => runs[p].src.status_code = 200)
Terminal == {"COMPLETED", "FAILED"}

\* C1: with one request at a time, whenever a run returns a COMPLETED log,
\* the target dataset's record_count is the number of stored records whose
\* dataset_id is that dataset.
C1_RecordCountIsCount ==
    \A p \in Procs :
        (Done(p) /\ LogOf(p).status = "COMPLETED")
            => TargetOf(p).record_count = NumRecordsOf(runs[p].dataset_id)

\* a second COMPLETED run into a dataset that already held records, while
\* another dataset exists
C1_Witness ==
    \E p \in Procs :
        /\ Done(p) /\ LogOf(p).status = "COMPLETED"
        /\ runs[p].count0 > 0 /\ runs[p].records_processed > 0
        /\ Len(datasets) = 2

\* C2: for every run that ends COMPLETED, records_processed + records_failed
\* is the number of candidate items of the payload: the length of the
\* top-level array, the length of the array under data_field, or 1 for a
\* single object.
ReadFromField(p) ==
    /\ runs[p].op = "api" /\ runs[p].arg # NoField
    /\ IsDict(runs[p].src.body) /\ HasKey(runs[p].src.body, runs[p].arg)
NestedArray(p) ==
    ReadFromField(p) /\ IsList(DictGet(runs[p].src.body, runs[p].arg, JNull))
SingleObject(p) == IsDict(runs[p].src.body) /\ ~ReadFromField(p)
ClaimedCandidates(p) ==
    IF NestedArray(p) THEN Len(DictGet(runs[p].src.body, runs[p].arg, JNull).elems)
    ELSE IF IsList(runs[p].src.body) THEN Len(runs[p].src.body.elems)
    ELSE 1
C2_ProcessedPlusFailed ==
    \A p \in Procs :
        (/\ Done(p) /\ LogOf(p).status = "COMPLETED"
         /\ (NestedArray(p) \/ IsList(runs[p].src.body) \/ SingleObject(p)))
            => LogOf(p).records_processed + LogOf(p).records_failed = ClaimedCandidates(p)

\* C3: a candidate that is not a key-value map only increments the failure
\* counter: the run ends COMPLETED, its records are exactly the key-value
\* maps among the candidates, in order, and records_failed counts the rest.
Candidates(p) == IterItems(runs[p].records)
NonDicts(items) == {i \in 1..Len(items) : ~IsDict(items[i])}
PersistedFrom(p, items) ==
    LET maps == SelectSeq(items, IsDict) IN
    [i \in 1..Len(maps) |->
        [dataset_id |-> runs[p].dataset_id, data |-> maps[i],
         metadata |-> [source_id |-> runs[p].source_id]]]
C3_PerRecordTolerance ==
    \A p \in Procs :
        (Done(p) /\ Iterable(runs[p].records) /\ NonDicts(Candidates(p)) # {})
            => /\ LogOf(p).status = "COMPLETED"
               /\ LogOf(p).records_failed = Cardinality(NonDicts(Candidates(p)))
               /\ LogOf(p).records_processed =
                      Len(Candidates(p)) - Cardinality(NonDicts(Candidates(p)))
               /\ data_records = runs[p].recs0 \o PersistedFrom(p, Candidates(p))

\* a returned run over [map, non-map, map]
C3_Witness ==
    \E p \in Procs :
        /\ Done(p) /\ Len(Candidates(p)) = 3 /\ NonDicts(Candidates(p)) = {2}
        /\ runs[p].recs0 # <<>>

\* C4: when the GET raises, answers a status other than 200, or its body
\* does not decode, ingest_from_api returns a FAILED log with a non-empty
\* error_message and leaves the dataset's record_count as it was.
HttpWentWrong(p) ==
    /\ runs[p].op = "api" /\ runs[p].io_calls > 0
    /\ (runs[p].src.exc # "" \/ runs[p].src.status_code # 200 \/ ~runs[p].src.parse_ok)
C4_WholeRunFailure ==
    \A p \in Procs :
        HttpWentWrong(p)
            => /\ runs[p].pc \in {"except", "done"}
               /\ TargetOf(p).record_count = runs[p].count0
               /\ Done(p) => /\ LogOf(p).status = "FAILED"
                             /\ LogOf(p).error_message \notin {NULL, ""}

\* a returned run that met HTTP 404 on a dataset that already held records
C4_Witness ==
    \E p \in Procs :
        /\ Done(p) /\ HttpWentWrong(p) /\ runs[p].src.status_code = 404
        /\ runs[p].count0 > 0

\* C5 (as claimed): every invocation, resolved ids or not, adds exactly one
\* IngestionLog row.
C5_OneLogPerInvocation == Len(data_ingestion_logs) = invocations

\* C5 (amended): an invocation whose source_id and dataset_id both resolve
\* adds exactly one log row; one whose source_id or dataset_id does not
\* resolve raises ValueError and adds none; no other step adds a log row.
Entered(p) == runs[p].pc = "idle" /\ runs'[p].pc # "idle"
BothResolve(p) ==
    /\ runs'[p].source_id \in 1..Len(data_sources)
    /\ runs'[p].dataset_id \in 1..Len(datasets)
C5_OneLogPerResolvedInvocation ==
    [][/\ (\A p \in Procs : ~Entered(p))
            => Len(data_ingestion_logs') = Len(data_ingestion_logs)
       /\ \A p \in Procs :
            Entered(p) =>
                IF BothResolve(p)
                THEN /\ runs'[p].pc = "try"
                     /\ Len(data_ingestion_logs') = Len(data_ingestion_logs) + 1
                     /\ runs'[p].log = Len(data_ingestion_logs')
                ELSE /\ runs'[p].pc = "raised"
                     /\ data_ingestion_logs' = data_ingestion_logs]_vars

\* one invocation raised on an unresolved source while the dataset
\* resolved, another was logged
C5_Witness ==
    /\ invocations = 2 /\ Len(data_ingestion_logs) = 1
    /\ \E p \in Procs :
        /\ runs[p].pc = "raised"
        /\ runs[p].dataset_id \in 1..Len(datasets)
        /\ runs[p].source_id \notin 1..Len(data_sources)

\* C6: the log returned to the caller is never RUNNING and is closed out
\* (end_time set) whether it COMPLETED or FAILED.
C6_ReturnedLogClosedOut ==
    \A p \in Procs :
        Done(p) => /\ LogOf(p).status \in Terminal
                   /\ LogOf(p).end_time # NULL

\* C7 (as claimed): once two interleaved runs against the same dataset have
\* both completed, record_count is the number of records of the dataset.
BothCompleted(p, q) ==
    /\ p # q /\ Done(p) /\ Done(q)
    /\ runs[p].dataset_id = runs[q].dataset_id
    /\ LogOf(p).status = "COMPLETED" /\ LogOf(q).status = "COMPLETED"
C7_ConcurrentCountExact ==
    \A p, q \in Procs :
        BothCompleted(p, q) => TargetOf(p).record_count = NumRecordsOf(runs[p].dataset_id)

\* C7 (amended): once both runs have completed, record_count is the count
\* one of the two runs read at its count step (the last writer's), which
\* is never greater than the number of records of the dataset.
C7_LastWriterWins ==
    \A p, q \in Procs :
        BothCompleted(p, q)
            => /\ TargetOf(p).record_count \in {runs[p].cnt, runs[q].cnt}
               /\ TargetOf(p).record_count <= NumRecordsOf(runs[p].dataset_id)

\* both runs completed and the count written last was read before the
\* other run committed its records
C7_Witness ==
    \E p, q \in Procs :
        /\ BothCompleted(p, q)
        /\ runs[p].records_processed > 0 /\ runs[q].records_processed > 0
        /\ TargetOf(p).record_count < NumRecordsOf(runs[p].dataset_id)

\* C8: create_dataset with a source_id that does not resolve creates no
\* Dataset row, so every Dataset row's source_id names an existing source
\* (sources are never deleted).
C8_DatasetSourceResolves ==
    \A d \in 1..Len(datasets) : datasets[d].source_id \in 1..Len(data_sources)

\* C9: in ingest_from_api, when data_field is supplied and names an array
\* of the body, the candidates are that array's elements; and a body that
\* is a single object not read from under data_field (data_field not
\* supplied, or absent from the body) is exactly one candidate: the run
\* completes with processed = 1, failed = 0 and adds one record holding it.
C9_DataFieldAndSingleObject ==
    \A p \in Procs :
        (Done(p) /\ runs[p].op = "api" /\ FetchOk(p))
            => /\ NestedArray(p)
                    => Candidates(p) = DictGet(runs[p].src.body, runs[p].arg, JNull).elems
               /\ SingleObject(p)
                    => /\ LogOf(p).status = "COMPLETED"
                       /\ LogOf(p).records_processed = 1
                       /\ LogOf(p).records_failed = 0
                       /\ data_records = Append(runs[p].recs0,
                              [dataset_id |-> runs[p].dataset_id, data |-> runs[p].src.body,
                               metadata |-> [source_id |-> runs[p].source_id]])

\* C10: ingest_from_file with a format other than json or csv (in any
\* letter case) never reads the file, adds no record, leaves record_count
\* alone and returns a FAILED log carrying the format error; json and csv
\* in any letter case are not refused.
Unsupported(p) ==
    /\ runs[p].op = "file" /\ runs[p].pc # "raised"
    /\ runs[p].arg \notin {"json", "JSON", "csv", "CSV"}
C10_UnsupportedFormat ==
    \A p \in Procs :
        /\ Unsupported(p)
            => /\ runs[p].pc \in {"try", "except", "done"}
               /\ runs[p].io_calls = 0
               /\ data_records = runs[p].recs0
               /\ TargetOf(p).record_count = runs[p].count0
               /\ Done(p) => /\ LogOf(p).status = "FAILED"
                             /\ LogOf(p).error_message =
                                    "Unsupported file format: " \o runs[p].arg
        /\ (runs[p].op = "file" /\ ~Unsupported(p) /\ Done(p))
            => LogOf(p).error_message # "Unsupported file format: " \o runs[p].arg

\* a returned xml run on a dataset that already held records
C10_Witness ==
    \E p \in Procs :
        /\ Done(p) /\ Unsupported(p) /\ runs[p].arg = "xml"
        /\ runs[p].count0 > 0 /\ runs[p].recs0 # <<>>

\* C11: ingestion does not deduplicate: a COMPLETED run adds one record per
\* key-value map among its candidates whatever the store already holds, so
\* a run over the payload that produced the records already stored leaves
\* every one of them twice and record_count at twice their number.
C11_NoDeduplication ==
    \A p \in Procs :
        (Done(p) /\ LogOf(p).status = "COMPLETED")
            => LET n == Len(SelectSeq(Candidates(p), IsDict)) IN
               /\ Len(data_records) = Len(runs[p].recs0) + n
               /\ TargetOf(p).record_count =
                      CountRecords(runs[p].recs0, runs[p].dataset_id) + n
               /\ runs[p].recs0 = PersistedFrom(p, Candidates(p))
                      => /\ data_records = runs[p].recs0 \o runs[p].recs0
                         /\ TargetOf(p).record_count = 2 * n

\* the second of two COMPLETED runs over the same payload of two or more
\* maps
C11_Witness ==
    \E p \in Procs :
        /\ Done(p) /\ LogOf(p).status = "COMPLETED"
        /\ Len(runs[p].recs0) >= 2
        /\ runs[p].recs0 = PersistedFrom(p, Candidates(p))
        /\ Len(data_records) = 2 * Len(runs[p].recs0)

\* C12: within one run the records are stored in source order: the
\* payloads of the rows the run added, read in id order, are the key-value
\* maps among the candidates in the order the payload lists them.
AddedBy(p) == SubSeq(data_records, Len(runs[p].recs0) + 1, Len(data_records))
C12_SourceOrder ==
    \A p \in Procs :
        (Done(p) /\ LogOf(p).status = "COMPLETED")
            => [i \in 1..Len(AddedBy(p)) |-> AddedBy(p)[i].data]
                   = SelectSeq(Candidates(p), IsDict)

\* a returned run that stored two different maps after earlier records
C12_Witness ==
    \E p \in Procs :
        /\ Done(p) /\ LogOf(p).status = "COMPLETED"
        /\ runs[p].recs0 # <<>>
        /\ Len(AddedBy(p)) >= 2
        /\ AddedBy(p)[1].data # AddedBy(p)[2].data
        /\ AddedBy(p)[1].data = Candidates(p)[1]

\* C13: clean_data bumps a record's updated_at exactly when the rules
\* changed that record's stored payload, and the number it returns is the
\* number of records of the dataset whose stored payload after the call
\* differs from the one before; records of other datasets and records
\* lacking every ruled field are left untouched.
Cleaned == call.op = "clean_data"
PayloadChanged(i) == data_records[i].data # call.recs0[i].data
Bumped(i) == updated_at[i] # call.upd0[i]
LacksRuledFields(i) ==
    \A f \in {"name", "price"} : call.args.rules[f] # "none" => ~HasKey(call.recs0[i].data, f)
C13_CleanDataChangeTracking ==
    Cleaned =>
        /\ \A i \in 1..Len(data_records) : Bumped(i) <=> PayloadChanged(i)
        /\ call.ret.n = Cardinality({i \in RecordsOf(data_records, call.dataset_id) :
                                        PayloadChanged(i)})
        /\ \A i \in 1..Len(data_records) :
              (call.recs0[i].dataset_id # call.dataset_id \/ LacksRuledFields(i))
                  => ~PayloadChanged(i) /\ ~Bumped(i)

\* C14: transform_data isolates failures per record: a record for which
\* the transform raises keeps its payload and its updated_at and is not
\* counted, every other record of the dataset holds the transform's
\* result, the call returns (it does not raise) the number of records
\* whose payload changed, and exactly those are bumped.
TransformedCall == call.op = "transform_data"
Throws(i) == ApplyTransform(call.args.fn, call.recs0[i].data).raised
AnalysisKind ==
    [run_statistical_analysis |-> "statistical", run_trend_analysis |-> "trend",
     run_summary_analysis |-> "summary"]
RunCall == call.op \in DOMAIN AnalysisKind
C15_ResultPersisted ==
    RunCall =>
        \/ call.ret.tag = "error"
        \/ /\ call.ret.tag = "return"
           /\ call.ret.n = Len(data_analyses)
           /\ Len(data_analyses) = Len(call.analyses0) + 1
           /\ data_analyses[call.ret.n] =
                  DataAnalysis(call.dataset_id, AnalysisKind[call.op], call.args,
                               call.ret.results)

\* C16: the rows of data_analyses only grow: no step of any operation
\* (ingestion, cleaning, transformation, reads, charts, analyses) changes
\* or removes a row; a run_* call that returns results adds exactly one
\* row, with a new id, also when an equal analysis is already stored; every
\* other step leaves the table as it is.
ReturnsAnalysis ==
    /\ call' # call /\ call'.op \in DOMAIN AnalysisKind
    /\ call'.ret.tag = "return"
C16_AnalysesAppendOnly ==
    [][/\ Len(data_analyses') >= Len(data_analyses)
       /\ SubSeq(data_analyses', 1, Len(data_analyses)) = data_analyses
       /\ IF ReturnsAnalysis
          THEN /\ Len(data_analyses') = Len(data_analyses) + 1
               /\ call'.ret.n = Len(data_analyses')
               /\ call'.ret.n \notin 1..Len(data_analyses)
          ELSE data_analyses' = data_analyses]_vars

\* the same trend analysis stored a second time, under id 2, with an
\* ingestion run and a DataProcessor call made since the store was set up
C16_Witness ==
    /\ Len(data_analyses) = 2 /\ data_analyses[1] = data_analyses[2]
    /\ call.op = "run_trend_analysis" /\ call.ret.n = 2
    /\ invocations > 0 /\ now > 0

\* C17: run_trend_analysis over two or more records that all carry a
\* timestamp and a number, the numbers strictly increasing along strictly
\* increasing timestamps (on one calendar day or on several), returns a
\* trend with slope > 0 and direction "increasing"; and whenever it
\* returns a trend, the direction is "increasing" exactly when slope > 0,
\* "decreasing" exactly when slope < 0 and "stable" otherwise.
TrendCall == call.op = "run_trend_analysis"
PointsOfCall ==
    SortByTime(Points(DataOf(call.recs0, call.dataset_id),
                      call.args.time_field, call.args.value_field))
AllRowsValid == Len(PointsOfCall) = Len(DataOf(call.recs0, call.dataset_id))
StrictlyIncreasing ==
    \A i \in 1..(Len(PointsOfCall) - 1) :
        /\ PointsOfCall[i].t < PointsOfCall[i + 1].t
        /\ PointsOfCall[i].y < PointsOfCall[i + 1].y
Slope == call.ret.results.slope
C17_IncreasingTrend ==
    TrendCall =>
        /\ (Len(PointsOfCall) >= 2 /\ AllRowsValid /\ StrictlyIncreasing)
              => /\ call.ret.tag = "return"
                 /\ Slope[1] > 0 /\ Slope[2] > 0
                 /\ call.ret.results.direction = "increasing"
        /\ call.ret.tag = "return"
              => /\ Slope[2] > 0
                 /\ call.ret.results.direction = "increasing" <=> Slope[1] > 0
                 /\ call.ret.results.direction = "decreasing" <=> Slope[1] < 0
                 /\ call.ret.results.direction = "stable" <=> Slope[1] = 0

\* C18: run_trend_analysis and generate_time_series_data never raise: rows
\* whose time_field or value_field cannot be parsed are dropped, and an
\* absent field, or fewer than two valid (time, value) pairs in the trend
\* case, yields an {"error": ...} result.
TimeSeriesCall == call.op = "generate_time_series_data"
FieldAbsent ==
    \/ call.args.time_field \notin Columns(DataOf(call.recs0, call.dataset_id))
    \/ call.args.value_field \notin Columns(DataOf(call.recs0, call.dataset_id))
C18_NeverRaises ==
    (TrendCall \/ TimeSeriesCall) =>
        /\ call.ret.tag # "raise"
        /\ FieldAbsent => call.ret.tag = "error"
        /\ (TrendCall /\ Len(PointsOfCall) < 2) => call.ret.tag = "error"
        /\ (TimeSeriesCall /\ call.ret.tag = "return")
              => /\ Len(call.ret.chart.x) = Len(PointsOfCall)
                 /\ \A i \in 1..Len(PointsOfCall) :
                       /\ call.ret.chart.x[i] = JIso(PointsOfCall[i].t)
                       /\ call.ret.chart.y[i] = JNum(PointsOfCall[i].y)

\* C19: on a dataset without records run_summary_analysis,
\* run_statistical_analysis, run_trend_analysis and generate_chart_data
\* return {"error": "No records found for this dataset"} and leave the
\* store as it was.
EmptyDatasetCall ==
    /\ call.op \in {"run_summary_analysis", "run_statistical_analysis",
                     "run_trend_analysis", "generate_chart_data"}
    /\ RecordsOf(call.recs0, call.dataset_id) = {}
C19_EmptyDataset ==
    EmptyDatasetCall =>
        /\ call.ret = ErrorResult(NoRecordsMessage)
        /\ data_records = call.recs0
        /\ updated_at = call.upd0
        /\ data_analyses = call.analyses0

\* a trend analysis of an empty dataset while the other dataset holds
\* records and an analysis is already stored
C19_Witness ==
    /\ EmptyDatasetCall /\ call.op = "run_trend_analysis"
    /\ call.recs0 # <<>> /\ call.analyses0 # <<>>

\* C20: generate_chart_data with chart type "pie" returns an {"error":
\* ...} result when the column x_field is numeric, and the label counts
\* only when it is categorical (dtype object or category); a chart type
\* that is not supported and an x_field that is no column yield an
\* {"error": ...} result; none of these raises.
ChartCall == call.op = "generate_chart_data"
XColumn == Column(DataOf(call.recs0, call.dataset_id), call.args.x_field)
XPresent == call.args.x_field \in Columns(DataOf(call.recs0, call.dataset_id))
C20_PieNeedsCategorical ==
    ChartCall =>
        /\ (call.args.chart_type = "pie" /\ XPresent /\ Dtype(XColumn) = "number")
              => call.ret = ErrorResult(NotCategorical(call.args.x_field))
        /\ (call.args.chart_type = "pie" /\ call.ret.tag = "return")
              => /\ XPresent /\ Dtype(XColumn) \in {"object", "category"}
                 /\ call.ret.chart.counts = ValueCounts(XColumn)
        /\ call.args.chart_type \notin {"line", "bar", "scatter", "pie", "histogram"}
              => call.ret.tag = "error"
        /\ ~XPresent => call.ret.tag = "error"
        /\ call.ret.tag # "raise"

\* a pie chart asked of a price column holding two numbers
C20_Witness ==
    /\ ChartCall /\ call.args.chart_type = "pie" /\ call.args.x_field = "price"
    /\ Len(XColumn) = 2 /\ Dtype(XColumn) = "number"
    /\ call.ret.tag = "error"

\* C21: generate_chart_data with chart type "histogram" returns 20 bin
\* counts and 21 bin edges, the counts summing to the number of records
\* whose x_field value is a number after coercion (null and other text are
\* not); when no such record exists it returns an {"error": ...} result.
HistogramCall == ChartCall /\ call.args.chart_type = "histogram"
IsNumber(v) == v.kind = "num" \/ (v.kind = "str" /\ v.keys = <<"decimal">>)
NumericCells == {i \in 1..Len(XColumn) : IsNumber(XColumn[i])}
C21_HistogramCounts ==
    HistogramCall =>
        IF NumericCells = {} THEN call.ret.tag = "error"
        ELSE /\ call.ret.tag = "return"
             /\ Len(call.ret.chart.x) = 21
             /\ Len(call.ret.chart.y) = 20
             /\ Sum(call.ret.chart.y) = Cardinality(NumericCells)

\* a histogram of a price column holding a number and the digits of a
\* greater number: both are counted, in the first and the last bin
C21_Witness ==
    /\ HistogramCall /\ call.args.x_field = "price"
    /\ Cardinality(NumericCells) = 2
    /\ \E i \in NumericCells : XColumn[i].kind = "str"
    /\ call.ret.tag = "return"
    /\ call.ret.chart.y[1] = 1 /\ call.ret.chart.y[20] = 1

\* C22: the record listing of the facade answers a request whose limit or
\* offset is negative with an error response (status "error", not 200)
\* instead of running the record query with them.
RecordsRequest == response.route = "get_dataset_records"
C22_PaginationValidated ==
    (RecordsRequest /\ (response.limit < 0 \/ response.offset < 0))
        => /\ response.status = "error"
           /\ response.status_code # 200
           /\ response.data = <<>>

\* C23: dataset detail, record listing, free-form query and describe,
\* given a dataset id that does not resolve, answer 404 with status
\* "error" and write nothing: no row is added to the query log.
DatasetRoutes == {"get_dataset", "get_dataset_records", "query_dataset", "describe_dataset"}
UnresolvedRequest ==
    response.route \in DatasetRoutes /\ ~DatasetExists(response.dataset_id)
C23_DatasetNotFound ==
    UnresolvedRequest =>
        /\ response.status_code = 404
        /\ response.status = "error"
        /\ data_queries = response.queries0

\* C24: a call of a cached function made less than the timeout after the
\* timestamp of the entry of its key returns the entry's value without
\* invoking the function; a call made at or after the timeout, or without
\* an entry, invokes it and, when it returns, the entry becomes the new
\* value with the time read when the call was made; the entries of other
\* keys stay as they were.
Caller == threads[MainThread]
CallEnded == Caller.pc = "done"
HadEntry == Caller.func \in DOMAIN Caller.CACHE0
Age == Caller.now - Caller.CACHE0[Caller.func].timestamp
C24_TimeToLive ==
    CallEnded =>
        /\ (HadEntry /\ Age < 3600)
              => /\ Caller.call = 0
                 /\ ~Caller.raised
                 /\ Caller.ret = Caller.CACHE0[Caller.func].value
                 /\ CACHE = Caller.CACHE0
        /\ (~HadEntry \/ Age >= 3600)
              => /\ Caller.call > 0
                 /\ ~Caller.failed
                       => /\ Caller.ret = Caller.result
                          /\ Caller.func \in DOMAIN CACHE
                          /\ CACHE[Caller.func].value = Caller.result
                          /\ CACHE[Caller.func].timestamp = Caller.now
        /\ DOMAIN CACHE \subseteq DOMAIN Caller.CACHE0 \cup {Caller.func}
        /\ \A k \in DOMAIN Caller.CACHE0 \ {Caller.func} : CACHE[k] = Caller.CACHE0[k]

\* a call made exactly one timeout after its entry was stamped, while
\* another key is cached: the function ran and the entry was replaced
C24_Witness ==
    /\ CallEnded /\ HadEntry /\ Age = 3600
    /\ DOMAIN Caller.CACHE0 # {Caller.func}
    /\ Caller.call > 0
    /\ CACHE[Caller.func].value # Caller.CACHE0[Caller.func].value
    /\ CACHE[Caller.func].timestamp = Caller.now

\* C25: when the wrapped function raises, wrapper returns the value of
\* the key's entry if there is one, expired or not, and leaves the entry
\* as it was; without an entry the exception reaches the caller and no
\* entry is made.
FuncRaised == CallEnded /\ Caller.failed
C25_StaleOnError ==
    FuncRaised =>
        /\ CACHE = Caller.CACHE0
        /\ IF HadEntry
           THEN ~Caller.raised /\ Caller.ret = Caller.CACHE0[Caller.func].value
           ELSE Caller.raised

\* the function raised two timeouts after its entry was stamped
C25_Witness ==
    /\ FuncRaised /\ HadEntry /\ Age = 7200
    /\ Caller.ret \in GoodValues
    /\ CACHE[Caller.func].timestamp = 0

\* C26: when threads call the same cached function while its entry is
\* missing or expired, the function is not invoked again for a key within
\* one timeout of another invocation for it, and an entry is only ever
\* replaced by the result of a later invocation.
Within(t1, t2) == t1 - t2 < 3600 /\ t2 - t1 < 3600
Invoking(t) == threads'[t].call > 0 /\ threads[t].call = 0 /\ threads[t].pc = "try"
C26_SingleFlight ==
    [][/\ \A t \in Procs : Invoking(t) =>
             /\ \A u \in Procs \ {t} :
                   (threads[u].call > 0 /\ threads[u].func = threads[t].func)
                       => ~Within(threads[t].now, threads[u].now)
             /\ threads[t].func \in DOMAIN CACHE
                   => ~Within(threads[t].now, CACHE[threads[t].func].timestamp)
       /\ \A k \in DOMAIN CACHE : CACHE'[k].call >= CACHE[k].call]_vars

\* C27: when a lookup (get_gdp_per_capita, get_exchange_rates) has a good
\* value cached, the entry has expired and the upstream request of the
\* next call fails, the call returns the cached good value and the cache
\* still holds it, not the "N/A" placeholder.
UpstreamFailed == CallEnded /\ Caller.func \in Lookups /\ Caller.result = Placeholder
C27_GoodValueKept ==
    (UpstreamFailed /\ HadEntry /\ Age >= 3600
        /\ Caller.CACHE0[Caller.func].value \in GoodValues)
        => /\ Caller.ret = Caller.CACHE0[Caller.func].value
           /\ CACHE[Caller.func].value = Caller.CACHE0[Caller.func].value

\* C28: a run whose log ends FAILED adds no record: the stored records are
\* those held when the run began, and the log's records_processed and
\* records_failed are both 0.
FailedRun(p) == Done(p) /\ LogOf(p).status = "FAILED"
C28_FailedRunAddsNothing ==
    /\ \A p \in Procs : FailedRun(p) => data_records = runs[p].recs0
    /\ \A l \in 1..Len(data_ingestion_logs) :
          data_ingestion_logs[l].status = "FAILED"
              => /\ data_ingestion_logs[l].records_processed = 0
                 /\ data_ingestion_logs[l].records_failed = 0

\* a run failed on a dataset that an earlier run had filled
C28_Witness ==
    /\ FailedRun(MainThread)
    /\ NumRecordsOf(runs[MainThread].dataset_id) > 0
    /\ data_records = runs[MainThread].recs0
    /\ LogOf(MainThread).records_failed = 0

\* C29: in every state reached by interleaved ingestion runs, cleaning and
\* transformation, no dataset's record_count exceeds the number of records
\* stored for it; and a run lowers the record_count of its dataset only if
\* another run has written that record_count since it began, which no run
\* does when requests are served one after the other.
Undisturbed(p) == TargetOf(p).record_count = runs[p].count0
Writes(p) == runs[p].pc = "write" /\ runs'[p].pc # "write"
C29_RecordCountBounded ==
    /\ [](\A d \in 1..Len(datasets) : datasets[d].record_count <= NumRecordsOf(d))
    /\ [][\A d \in 1..Len(datasets) :
              /\ \A p \in Procs :
                    (Writes(p) /\ Undisturbed(p))
                        => datasets'[d].record_count >= datasets[d].record_count
              /\ (\A q \in Procs : ~Writes(q))
                    => datasets'[d].record_count = datasets[d].record_count]_vars

\* two runs interleaved on a dataset and returned, a cleaning call made:
\* the record_count is behind the number of records stored
C29_Witness ==
    /\ AllIdle /\ now > 0
    /\ \E d \in 1..Len(datasets) :
          /\ datasets[d].record_count > 0
          /\ datasets[d].record_count < NumRecordsOf(d)

\* C30: every ingestion log and every record written by ingestion carries
\* the source_id of the dataset it targets, after any sequence of
\* ingestion requests.
C30_SourceMatchesDataset ==
    /\ \A l \in 1..Len(data_ingestion_logs) :
          data_ingestion_logs[l].source_id
              = datasets[data_ingestion_logs[l].dataset_id].source_id
    /\ \A i \in 1..Len(data_records) :
          data_records[i].metadata.source_id = datasets[data_records[i].dataset_id].source_id

====
